---- MODULE Spec2Model ----
(***************************************************************************)
(* Runtime decision engine: the risk ledger and trader                     *)
(* (src/src/execution/trader.py), the strategy state machine               *)
(* (src/src/strategy/state_machine.py), the quorum health monitor          *)
(* (src/src/strategy/quorum_health.py) and the supervisor's streams,       *)
(* workers and monitors (src/src/main.py, src/src/feeds/, src/src/ops/).   *)
(*                                                                         *)
(* Units.  Prices are integers in mills (1/1000 USD), sizes in tenths of a *)
(* share, money in pips (1/10000 USD) so that size * price is money.       *)
(* Percentages are whole percents.  The clock `now` is time.time() in      *)
(* seconds; a UTC date is its day number, the UTC hour is 0..23.           *)
(* An exposure key "token|horizon|DIRECTION|identity" is the record of its *)
(* '|'-separated parts; a legacy 3-field key has the identity "absent".    *)
(***************************************************************************)
EXTENDS Integers, Sequences, FiniteSets, TLC

VARIABLES
    settings,                 \* Settings the trader was built with
    now,                      \* time.time()
    ticks,                    \* clock advances so far (bounds the run)
    risk,                     \* Trader.risk : RiskState
    cached_equity_usd,        \* Trader._cached_equity_usd
    last_equity_refresh_ts,   \* Trader._last_equity_refresh_ts
    client,                   \* Trader.client / _live_auth_ready
    token_constraints_by_id,  \* Trader.token_constraints_by_id
    file,                     \* the file at settings.risk_state_path
    pc,                       \* position inside buy_fok
    order,                    \* the order buy_fok is working on
    obs,                      \* what the last operation did and returned
    hist,                     \* history of the run the properties refer to
    strategy,                 \* orchestrate's strategy : StrategyStateMachine
    feed,                     \* the oracle stream: ts of its last tick, ticks so far
    last_call,                \* the last call made on the strategy and its result
    quorum,                   \* orchestrate's quorum : QuorumHealth
    decision,                 \* the last QuorumDecision evaluate returned
    journal,                  \* the quorum's clock and its evaluations so far
    price_stream,             \* stream_prices_with_fallback: its locals and output
    book_stream,              \* stream_clob_with_resubscribe: its locals and output
    worker,                   \* run_resilient: its backoff and its worker
    rtds,                     \* RTDSFeed.stream_prices: its connection and delays
    clob,                     \* CLOBWebSocket.stream_books: its connection
    recorder,                 \* EventRecorder: its queue and counter
    monitor,                  \* HeartbeatMonitor: its counter and callbacks
    book_tops,                \* CLOBWebSocket._book_tops and the last parse
    submissions               \* buy_fok's orders: threads left running, fills, accepted

\* the decision engine: it shares no state with the trader
engine == <<strategy, feed, last_call, quorum, decision, journal>>

\* the supervisor's streams, workers and monitors
runtime == <<price_stream, book_stream, worker, rtds, clob, recorder, monitor,
            book_tops, submissions>>

vars == <<settings, now, ticks, risk, cached_equity_usd, last_equity_refresh_ts,
          client, token_constraints_by_id, file, pc, order, obs, hist,
          strategy, feed, last_call, quorum, decision, journal,
          price_stream, book_stream, worker, rtds, clob, recorder, monitor,
          book_tops, submissions>>

----------------------------------------------------------------------------
(* Bounds of the model *)

MaxTicks == 2
MaxOrders == 2

----------------------------------------------------------------------------
(* Units and clock *)

USD == 10 * 1000
SecondsPerMinute == 6 * 10
SecondsPerHour == 60 * SecondsPerMinute
SecondsPerDay == 24 * SecondsPerHour
TickSeconds == 5 * SecondsPerMinute

NoEpoch == -1
NoDate == -1

Min(a, b) == IF a <= b THEN a ELSE b
Max(a, b) == IF a >= b THEN a ELSE b

TodayUtc(t) == t \div SecondsPerDay
HourUtc(t) == (t \div SecondsPerHour) % 24
AbsHour(t) == t \div SecondsPerHour

RECURSIVE SumOver(_, _)
SumOver(f, S) ==
    IF S = {} THEN 0
    ELSE LET k == CHOOSE x \in S : TRUE IN f[k] + SumOver(f, S \ {k})

SumValues(f) == SumOver(f, DOMAIN f)

EmptyMap == [k \in {} |-> 0]

----------------------------------------------------------------------------
(* Exposure keys *)

NoSlug == [pattern |-> "none", h |-> 0, start |-> 0]
BtcSlug(h, start) == [pattern |-> "btc-updown", h |-> h, start |-> start]
OtherSlug(start) == [pattern |-> "other", h |-> 0, start |-> start]

AbsentIdentity == [kind |-> "absent", pattern |-> "none", h |-> 0, start |-> 0]
LegacyIdentity == [kind |-> "legacy", pattern |-> "none", h |-> 0, start |-> 0]

MarketIdentity(market_slug, market_start_epoch) ==
    IF market_slug.pattern # "none"
    THEN [kind |-> "slug", pattern |-> market_slug.pattern,
          h |-> market_slug.h, start |-> market_slug.start]
    ELSE IF market_start_epoch # NoEpoch
    THEN [kind |-> "start", pattern |-> "none", h |-> 0, start |-> market_start_epoch]
    ELSE LegacyIdentity

Upper(direction) == IF direction = "buy" THEN "BUY" ELSE direction

MarketExposureKey(token_id, horizon, direction, market_slug, market_start_epoch) ==
    [token |-> token_id, horizon |-> horizon, direction |-> Upper(direction),
     identity |-> MarketIdentity(market_slug, market_start_epoch)]

KeyParts(key) == IF key.identity.kind = "absent" THEN 3 ELSE 4

MigrateLegacyExposureKey(key) ==
    IF KeyParts(key) >= 4 THEN key
    ELSE [key EXCEPT !.identity = LegacyIdentity]

ParseHorizonMinutes(horizon) ==
    CASE horizon = "5" -> 5
      [] horizon = "5m" -> 5
      [] horizon = "15" -> 15
      [] horizon = "15m" -> 15
      [] OTHER -> 0

InferMarketEndEpoch(horizon, identity) ==
    IF identity.kind = "slug" /\ identity.pattern = "btc-updown"
    THEN identity.start + identity.h * 60
    ELSE IF identity.kind = "start"
    THEN IF ParseHorizonMinutes(horizon) = 0 THEN NoEpoch
         ELSE identity.start + ParseHorizonMinutes(horizon) * 60
    ELSE NoEpoch

----------------------------------------------------------------------------
(* RiskState and its JSON form.  A JSON number is the pair of its value    *)
(* and whether it is written with a fractional part (a Python float is, a  *)
(* Python int is not).                                                     *)

RiskStateDefault ==
    [daily_realized_pnl |-> 0,
     trades_this_hour |-> 0,
     last_trade_hour |-> -1,
     last_pnl_reset_date_utc |-> NoDate,
     open_exposure_usd_by_market |-> EmptyMap,
     total_open_notional_usd |-> 0,
     total_pytype |-> "float",
     trades_since_reconcile |-> 0,
     cumulative_realized_pnl |-> 0,
     consecutive_losses |-> 0,
     cooldown_until_ts |-> 0,
     peak_equity_usd |-> 0]

JFloat(x) == [n |-> x, frac |-> TRUE]
JInt(x) == [n |-> x, frac |-> FALSE]
JNum(x, pytype) == [n |-> x, frac |-> (pytype = "float")]

Get(payload, field, default) ==
    IF field \in DOMAIN payload THEN payload[field] ELSE default

AbsentFile == [kind |-> "absent", torn |-> "", payload |-> [none |-> 0]]
TornFile(how) == [kind |-> "torn", torn |-> how, payload |-> [none |-> 0]]
JsonFile(payload) == [kind |-> "json", torn |-> "", payload |-> payload]

\* asdict(self.risk) serialized by orjson.dumps
Dump(r) ==
    [daily_realized_pnl |-> JFloat(r.daily_realized_pnl),
     trades_this_hour |-> JInt(r.trades_this_hour),
     last_trade_hour |-> JInt(r.last_trade_hour),
     last_pnl_reset_date_utc |-> r.last_pnl_reset_date_utc,
     open_exposure_usd_by_market |->
         [k \in DOMAIN r.open_exposure_usd_by_market |->
             JFloat(r.open_exposure_usd_by_market[k])],
     total_open_notional_usd |-> JNum(r.total_open_notional_usd, r.total_pytype),
     trades_since_reconcile |-> JInt(r.trades_since_reconcile),
     cumulative_realized_pnl |-> JFloat(r.cumulative_realized_pnl),
     consecutive_losses |-> JInt(r.consecutive_losses),
     cooldown_until_ts |-> JFloat(r.cooldown_until_ts),
     peak_equity_usd |-> JFloat(r.peak_equity_usd)]

NormalizeOpenExposure(raw) ==
    LET migrated == {MigrateLegacyExposureKey(k) : k \in DOMAIN raw}
        amount == [k \in DOMAIN raw |-> Max(0, raw[k].n)]
    IN [m \in migrated |->
           SumOver(amount, {k \in DOMAIN raw : MigrateLegacyExposureKey(k) = m})]

\* raw is the nested mapping token -> horizon -> direction -> notional, given
\* as a function of the triples (no two triples differ only in letter case)
MigrateOpenExposurePayload(raw) ==
    LET keyOf(t) == [token |-> t.token, horizon |-> t.horizon,
                     direction |-> Upper(t.direction), identity |-> LegacyIdentity]
    IN [k \in {keyOf(t) : t \in DOMAIN raw} |->
           Max(0, raw[CHOOSE t \in DOMAIN raw : keyOf(t) = k].n)]

LoadRiskState(f) ==
    IF f.kind # "json" THEN RiskStateDefault
    ELSE
    LET payload == f.payload
        open_exposure ==
            IF "open_exposure_usd_by_market" \in DOMAIN payload
            THEN payload.open_exposure_usd_by_market
            ELSE IF "open_exposure" \in DOMAIN payload
            THEN [k \in DOMAIN MigrateOpenExposurePayload(payload.open_exposure) |->
                     JFloat(MigrateOpenExposurePayload(payload.open_exposure)[k])]
            ELSE EmptyMap
        normalized == NormalizeOpenExposure(open_exposure)
        total == Get(payload, "total_open_notional_usd", JFloat(0)).n
    IN [daily_realized_pnl |-> Get(payload, "daily_realized_pnl", JFloat(0)).n,
        trades_this_hour |-> Get(payload, "trades_this_hour", JInt(0)).n,
        last_trade_hour |-> Get(payload, "last_trade_hour", JInt(-1)).n,
        last_pnl_reset_date_utc |-> Get(payload, "last_pnl_reset_date_utc", NoDate),
        open_exposure_usd_by_market |-> normalized,
        total_open_notional_usd |->
            IF total <= 0 /\ DOMAIN normalized # {} THEN SumValues(normalized)
            ELSE total,
        total_pytype |-> "float",
        trades_since_reconcile |-> Get(payload, "trades_since_reconcile", JInt(0)).n,
        cumulative_realized_pnl |-> Get(payload, "cumulative_realized_pnl", JFloat(0)).n,
        consecutive_losses |-> Get(payload, "consecutive_losses", JInt(0)).n,
        cooldown_until_ts |-> Get(payload, "cooldown_until_ts", JFloat(0)).n,
        peak_equity_usd |-> Get(payload, "peak_equity_usd", JFloat(0)).n]

----------------------------------------------------------------------------
(* Ledger operations, as functions of the RiskState they rewrite *)

\* variant: the date is advanced but the day's PnL is kept
ResetDailyPnlKeepsPnl(r, t) ==
    IF r.last_pnl_reset_date_utc = TodayUtc(t) THEN r
    ELSE [r EXCEPT !.last_pnl_reset_date_utc = TodayUtc(t)]

ResetDailyPnlIfNeeded(r, t) ==
    IF r.last_pnl_reset_date_utc = TodayUtc(t) THEN r
    ELSE [r EXCEPT !.daily_realized_pnl = 0,
                   !.last_pnl_reset_date_utc = TodayUtc(t)]

\* variant: a market ending exactly now is not yet expired
ExpiredKeysStrictlyBefore(m, t) ==
    {k \in DOMAIN m :
        /\ KeyParts(k) = 4
        /\ InferMarketEndEpoch(k.horizon, k.identity) # NoEpoch
        /\ InferMarketEndEpoch(k.horizon, k.identity) < t}

ExpiredKeys(m, t) ==
    {k \in DOMAIN m :
        /\ KeyParts(k) = 4
        /\ InferMarketEndEpoch(k.horizon, k.identity) # NoEpoch
        /\ InferMarketEndEpoch(k.horizon, k.identity) <= t}

\* variant: expired entries are dropped without recomputing the total
CleanupExpiredExposureStaleTotal(r, t) ==
    LET m == r.open_exposure_usd_by_market
        kept == [k \in DOMAIN m \ ExpiredKeys(m, t) |-> m[k]]
    IN IF ExpiredKeys(m, t) = {} THEN r
       ELSE [r EXCEPT !.open_exposure_usd_by_market = kept]

CleanupExpiredExposure(r, t) ==
    LET m == r.open_exposure_usd_by_market
        kept == [k \in DOMAIN m \ ExpiredKeys(m, t) |-> m[k]]
    IN IF ExpiredKeys(m, t) = {} THEN r
       ELSE [r EXCEPT !.open_exposure_usd_by_market = kept,
                      !.total_open_notional_usd = Max(0, SumValues(kept)),
                      !.total_pytype = "float"]

CooldownActive(r, t) == t < r.cooldown_until_ts

Abs(x) == IF x < 0 THEN -x ELSE x

ExposureOf(r, key) ==
    IF key \in DOMAIN r.open_exposure_usd_by_market
    THEN r.open_exposure_usd_by_market[key] ELSE 0

\* variant: the total exposure cap is not applied
RiskBlockedWithoutTotalCap(r, notional_usd, key, t) ==
    \/ notional_usd > settings.max_usd_per_trade
    \/ r.daily_realized_pnl <= -Abs(settings.max_daily_loss_usd)
    \/ CooldownActive(r, t)
    \/ r.trades_this_hour >= settings.max_trades_per_hour
    \/ ExposureOf(r, key) + notional_usd > settings.max_open_exposure_per_market_usd

\* variant: the hourly cap is compared with > instead of >=
RiskBlockedHourlyOffByOne(r, notional_usd, key, t) ==
    \/ notional_usd > settings.max_usd_per_trade
    \/ r.daily_realized_pnl <= -Abs(settings.max_daily_loss_usd)
    \/ CooldownActive(r, t)
    \/ r.trades_this_hour > settings.max_trades_per_hour
    \/ ExposureOf(r, key) + notional_usd > settings.max_open_exposure_per_market_usd
    \/ r.total_open_notional_usd + notional_usd > settings.max_total_open_exposure_usd

RiskBlocked(r, notional_usd, key, t) ==
    \/ notional_usd > settings.max_usd_per_trade
    \/ r.daily_realized_pnl <= -Abs(settings.max_daily_loss_usd)
    \/ CooldownActive(r, t)
    \/ r.trades_this_hour >= settings.max_trades_per_hour
    \/ ExposureOf(r, key) + notional_usd > settings.max_open_exposure_per_market_usd
    \/ r.total_open_notional_usd + notional_usd > settings.max_total_open_exposure_usd

ApplyOpenExposureDelta(r, key, delta_usd) ==
    LET m == r.open_exposure_usd_by_market
        updated == Max(0, ExposureOf(r, key) + delta_usd)
        next == IF updated = 0
                THEN [k \in DOMAIN m \ {key} |-> m[k]]
                ELSE [k \in DOMAIN m \cup {key} |-> IF k = key THEN updated ELSE m[k]]
    IN IF delta_usd = 0 THEN r
       ELSE [r EXCEPT !.open_exposure_usd_by_market = next,
                      !.total_open_notional_usd = Max(0, SumValues(next)),
                      !.total_pytype = "float"]

\* the map rebuilt from the venue's positions (no two positions of one key)
RebuiltExposure(positions) ==
    LET usable == {p \in positions : p.token_id # "" /\ p.notional # 0}
        keyOf(p) == MarketExposureKey(p.token_id, p.horizon, p.direction,
                                      p.market_slug, p.start_epoch)
    IN [k \in {keyOf(p) : p \in usable} |->
           Abs((CHOOSE p \in usable : keyOf(p) = k).notional)]

\* venue = [listed |-> some positions method returned a list, positions |-> it]
MaybeReconcileExposureFromExchange(r, force, venue, cl, t) ==
    LET counted == [r EXCEPT !.trades_since_reconcile = @ + 1]
        rebuilt == RebuiltExposure(venue.positions)
        replaced == [counted EXCEPT
                        !.open_exposure_usd_by_market = rebuilt,
                        !.total_open_notional_usd = SumValues(rebuilt),
                        !.total_pytype = IF DOMAIN rebuilt = {} THEN "int" ELSE "float"]
    IN IF ~force /\ counted.trades_since_reconcile < settings.exposure_reconcile_every_n_trades
       THEN counted
       ELSE IF cl = "none" \/ ~venue.listed THEN counted
       ELSE [CleanupExpiredExposure(replaced, t) EXCEPT !.trades_since_reconcile = 0]

\* balance = the first positive balance a venue endpoint returned, 0 if none
QueryExchangeEquityUsd(cl, balance) == IF cl = "none" THEN 0 ELSE balance

\* eq = [cached |-> _cached_equity_usd, ts |-> _last_equity_refresh_ts]
RefreshEquityCache(eq, r, force, cl, balance, t) ==
    IF ~force /\ (t - eq.ts) < settings.equity_refresh_seconds THEN eq
    ELSE IF QueryExchangeEquityUsd(cl, balance) > 0
    THEN [cached |-> QueryExchangeEquityUsd(cl, balance), ts |-> t]
    ELSE [cached |-> Max(0, settings.equity_usd + r.cumulative_realized_pnl), ts |-> t]

\* variant: the loss streak must exceed the threshold, not only reach it
TriggeredByLossesStrict(r) ==
    /\ settings.cooldown_consecutive_losses > 0
    /\ r.consecutive_losses > settings.cooldown_consecutive_losses

TriggeredByLosses(r) ==
    /\ settings.cooldown_consecutive_losses > 0
    /\ r.consecutive_losses >= settings.cooldown_consecutive_losses

\* drawdown_pct = max(0, (peak - equity) / max(peak, 1e-9)) against a percentage
TriggeredByDrawdown(peak, equity_usd) ==
    /\ settings.cooldown_drawdown_pct > 0
    /\ IF peak <= 0 THEN settings.cooldown_drawdown_pct <= 100
       ELSE (peak - equity_usd) * 100 >= settings.cooldown_drawdown_pct * peak

\* returns the RiskState and the equity cache
MaybeStartCooldown(r, eq, cl, balance, t) ==
    LET eq2 == RefreshEquityCache(eq, r, TRUE, cl, balance, t)
        r2 == IF eq2.cached > r.peak_equity_usd
              THEN [r EXCEPT !.peak_equity_usd = eq2.cached] ELSE r
        until == t + settings.cooldown_minutes * 60
    IN IF settings.cooldown_minutes <= 0 THEN [risk |-> r, eq |-> eq]
       ELSE IF ~(TriggeredByLosses(r2) \/ TriggeredByDrawdown(r2.peak_equity_usd, eq2.cached))
       THEN [risk |-> r2, eq |-> eq2]
       ELSE IF until > r2.cooldown_until_ts
       THEN [risk |-> [r2 EXCEPT !.cooldown_until_ts = until], eq |-> eq2]
       ELSE [risk |-> r2, eq |-> eq2]

----------------------------------------------------------------------------
(* _check_risk and _record_post_trade_updates *)

\* returns the RiskState, the equity cache, the verdict, whether expired keys
\* were purged and whether the state was persisted
CheckRisk(r, eq, notional_usd, key, cl, balance, t) ==
    LET r1 == ResetDailyPnlIfNeeded(r, t)
        eq1 == RefreshEquityCache(eq, r1, FALSE, cl, balance, t)
        r2 == CleanupExpiredExposure(r1, t)
        r3 == IF HourUtc(t) # r2.last_trade_hour
              THEN [r2 EXCEPT !.last_trade_hour = HourUtc(t), !.trades_this_hour = 0]
              ELSE r2
    IN [risk |-> r3,
        eq |-> eq1,
        allowed |-> ~RiskBlocked(r3, notional_usd, key, t),
        cleaned |-> ExpiredKeys(r1.open_exposure_usd_by_market, t) # {},
        persisted |-> \/ r.last_pnl_reset_date_utc # TodayUtc(t)
                      \/ HourUtc(t) # r2.last_trade_hour
                      \/ ExpiredKeys(r1.open_exposure_usd_by_market, t) # {}]

\* resp = [realized_pnl, filled_notional, complete_fill_details] as extracted
\* by _extract_realized_pnl and _extract_fill_notional
RecordPostTradeUpdates(r, eq, resp, key, fallback_notional_usd, cl, venue, balance, t) ==
    LET r1 == ResetDailyPnlIfNeeded(r, t)
        pnl == resp.realized_pnl
        r2 == IF pnl = 0 THEN r1
              ELSE [r1 EXCEPT
                      !.daily_realized_pnl = @ + pnl,
                      !.cumulative_realized_pnl = @ + pnl,
                      !.consecutive_losses = IF pnl < 0 THEN @ + 1 ELSE 0]
        applied == IF resp.filled_notional > 0 THEN resp.filled_notional
                   ELSE fallback_notional_usd
        r3 == ApplyOpenExposureDelta(r2, key, applied)
        r4 == MaybeReconcileExposureFromExchange(r3, ~resp.complete_fill_details,
                                                 venue, cl, t)
        r5 == CleanupExpiredExposure(r4, t)
    IN MaybeStartCooldown(r5, eq, cl, balance, t)

----------------------------------------------------------------------------
(* Order sizing of buy_fok *)

RoundSizeToStep(size, step_size) == (size \div step_size) * step_size

RoundSizeUpToStep(size, step_size) == ((size + step_size - 1) \div step_size) * step_size

RoundPriceUpToTick(price, tick_size) == ((price + tick_size - 1) \div tick_size) * tick_size

TokenConstraintsDefault == [min_order_size |-> 0, tick_size |-> 0]

\* p_hat = 0 stands for None; cache_tick is what the token metadata cache
\* answers (its fallback is 0.001); the 1e-6 floor of the effective cost is
\* the smallest price of the model
OrderSizing(constraints, ask, p_hat, costs, equity_usd, cache_tick) ==
    LET tick_size == IF constraints.tick_size # 0 THEN constraints.tick_size
                     ELSE IF cache_tick # 0 THEN cache_tick ELSE 1
        min_order_size == IF constraints.min_order_size # 0
                          THEN constraints.min_order_size ELSE 1
        size_step == min_order_size
        effective_cost == Min(999, Max(1, ask + costs))
        kelly_suggested ==
            IF p_hat = 0 THEN 0
            ELSE Max(0, Min(100, ((p_hat - effective_cost) * 100)
                                     \div Max(1, 1000 - effective_cost)))
        dynamic_risk_pct ==
            Min(settings.max_risk_pct_cap,
                Max(settings.risk_pct_per_trade,
                    (kelly_suggested * settings.kelly_fraction) \div 100))
        quote_size_usd == Min(settings.max_usd_per_trade,
                              (equity_usd * dynamic_risk_pct) \div 100)
        size == RoundSizeToStep(quote_size_usd \div ask, size_step)
        px == RoundPriceUpToTick(ask, tick_size)
        bumped == size < min_order_size
        final == IF bumped THEN RoundSizeUpToStep(min_order_size, size_step) ELSE size
    IN [px |-> px, size |-> final, bumped |-> bumped, notional |-> final * px]

----------------------------------------------------------------------------
(* Configurations, inputs and the environment *)

BaseSettings ==
    [dry_run |-> TRUE,
     max_usd_per_trade |-> 20 * USD,
     risk_pct_per_trade |-> 1,
     kelly_fraction |-> 25,
     max_risk_pct_cap |-> 1,
     equity_usd |-> 1000 * USD,
     equity_refresh_seconds |-> 30,
     cooldown_consecutive_losses |-> 2,
     cooldown_drawdown_pct |-> 5,
     cooldown_minutes |-> 10,
     max_daily_loss_usd |-> 100 * USD,
     max_daily_loss_pct |-> 5,
     max_trades_per_hour |-> 2,
     max_open_exposure_per_market_usd |-> 20 * USD,
     max_open_exposure_per_market_pct |-> 5,
     max_total_open_exposure_usd |-> 25 * USD,
     max_total_open_exposure_pct |-> 15,
     exposure_reconcile_every_n_trades |-> 2]

\* live trading with one of the two cooldown triggers switched off (0)
LiveSettings(losses, drawdown) ==
    [BaseSettings EXCEPT !.dry_run = FALSE,
                         !.cooldown_consecutive_losses = losses,
                         !.cooldown_drawdown_pct = drawdown]

Tokens == {"t1"}
Asks == {500}
PHats == {900}
CacheTicks == {0}
\* the (min_order_size, tick_size) updates the book feed delivers; 0 is None
ConstraintUpdates == {[min_order_size |-> 500, tick_size |-> 10]}
VenueBalances == {0, 1000 * USD}
RealizedPnls == {-60 * USD, 60 * USD}

\* the markets an order can be for at time t: the current 5-minute market by
\* slug, the current 15-minute market by start epoch, a call without identity
MarketsAt(t) ==
    {[horizon |-> "5", market_slug |-> BtcSlug(5, (t \div 300) * 300),
      market_start_epoch |-> (t \div 300) * 300],
     [horizon |-> "15", market_slug |-> NoSlug,
      market_start_epoch |-> (t \div 900) * 900],
     [horizon |-> "5", market_slug |-> NoSlug, market_start_epoch |-> NoEpoch]}

LegacyKey(token_id, horizon, direction) ==
    [token |-> token_id, horizon |-> horizon, direction |-> direction,
     identity |-> AbsentIdentity]

BeforeHour == SecondsPerDay + 10 * SecondsPerHour - TickSeconds
BeforeMidnight == 2 * SecondsPerDay - TickSeconds

\* the state files a first start can find besides none: one left earlier in
\* the hour after one trade; one with a legacy 3-field key and an ended
\* market; one of the previous UTC date; one in the nested layout
EarlierThisHourFile ==
    JsonFile([trades_this_hour |-> JInt(1),
              last_trade_hour |-> JInt(HourUtc(BeforeHour)),
              last_pnl_reset_date_utc |-> TodayUtc(BeforeHour)])

LegacyKeysFile ==
    JsonFile([open_exposure_usd_by_market |->
                  (LegacyKey("t1", "5", "BUY") :> JFloat(10 * USD)) @@
                  (MarketExposureKey("t1", "5", "BUY", BtcSlug(5, BeforeHour - 600),
                                     BeforeHour - 600) :> JFloat(5 * USD))])

YesterdayFile ==
    JsonFile([daily_realized_pnl |-> JFloat(-100 * USD),
              trades_this_hour |-> JInt(2),
              last_trade_hour |-> JInt(5),
              last_pnl_reset_date_utc |-> TodayUtc(BeforeMidnight) - 1])

NestedLayoutFile ==
    JsonFile([open_exposure |->
                  ([token |-> "t2", horizon |-> "5", direction |-> "buy"]
                      :> JFloat(10 * USD))])

\* a first start: the configuration, how client initialisation ends, the
\* clock (five minutes before an hour boundary or before midnight), the file
Start(st, cl, t, f) == [settings |-> st, client |-> cl, now |-> t, file |-> f]

Starts ==
    {Start(BaseSettings, "none", BeforeHour, EarlierThisHourFile),
     Start(BaseSettings, "none", BeforeHour, LegacyKeysFile),
     Start(BaseSettings, "none", BeforeMidnight, YesterdayFile),
     Start(BaseSettings, "none", BeforeMidnight, NestedLayoutFile),
     Start(LiveSettings(2, 0), "ready", BeforeHour, AbsentFile),
     Start(LiveSettings(0, 5), "ready", BeforeMidnight, AbsentFile),
     Start(LiveSettings(2, 0), "none", BeforeHour, LegacyKeysFile),
     Start(LiveSettings(0, 5), "noauth", BeforeMidnight, YesterdayFile)}

\* what the venue's positions endpoints answer after the order o
VenuePositions(o) ==
    {[listed |-> FALSE, positions |-> {}],
     [listed |-> TRUE, positions |-> {}],
     [listed |-> TRUE,
      positions |-> {[token_id |-> o.token, horizon |-> o.horizon, direction |-> "BUY",
                      notional |-> o.notional, market_slug |-> o.market_slug,
                      start_epoch |-> o.market_start_epoch]}]}

\* the responses of a submitted order that count as filled
LiveResponses(o) ==
    {[realized_pnl |-> p, filled_notional |-> f.n, complete_fill_details |-> f.c] :
        p \in RealizedPnls,
        f \in {[n |-> o.notional, c |-> TRUE], [n |-> 0, c |-> FALSE]}}

NoKey == MarketExposureKey("", "", "", NoSlug, NoEpoch)

NoOrder == [token |-> "", horizon |-> "", market_slug |-> NoSlug,
            market_start_epoch |-> NoEpoch, px |-> 0, size |-> 0, notional |-> 0,
            key |-> NoKey, ts |-> 0, waited |-> FALSE, before |-> RiskStateDefault]

Observed(op, t, allowed, notional, key) ==
    [op |-> op, ts |-> t, allowed |-> allowed, notional |-> notional, key |-> key,
     cleaned |-> FALSE]

----------------------------------------------------------------------------
(* The strategy state machine (strategy/state_machine.py).
   Oracle prices are whole dollars, asks are mills, times are whole seconds
   and watch_return_threshold is per mille.  A return is kept as the pair
   <<previous price, price>> whose ratio it is.  RollingStats keeps its mean
   and m2 as reals; only its count is kept here, which is all that decides
   anything below: the z-score trigger is off at watch_zscore_threshold 0,
   and _sigma1 is positive exactly when its samples suffice.  A candidate's
   p_hat and ev are reals too (a normal CDF): pick_best's choice of the
   candidate of greatest ev is a choice among the candidates. *)

NoPrice == NoEpoch     \* last_price is None
NoBucket == NoEpoch    \* last_5m_bucket / last_15m_bucket is None
NoAsk == NoEpoch       \* BookSnapshot.ask is None
NoRet == <<>>          \* a return that is None

StrategySettings ==
    [watch_return_threshold |-> 5, hammer_secs |-> 15, d_min |-> 5,
     max_entry_price |-> 970, watch_rolling_window_seconds |-> 60,
     watch_zscore_threshold |-> 0, price_stale_after_seconds |-> 2,
     watch_mode_expiry_seconds |-> 60]

StrategyTokens == {"up5", "down5", "up15", "down15"}

\* StrategyStateMachine.__init__
StrategyStateMachine(st) ==
    [threshold |-> st.watch_return_threshold,
     hammer_secs |-> st.hammer_secs,
     d_min |-> st.d_min,
     max_entry_price |-> st.max_entry_price,
     rolling_window_seconds |-> Max(2, st.watch_rolling_window_seconds),
     price_stale_after_seconds |-> Max(0, st.price_stale_after_seconds),
     watch_mode_expiry_seconds |-> Max(1, st.watch_mode_expiry_seconds),
     last_price |-> NoPrice,
     watch_mode |-> FALSE,
     watch_mode_started_at |-> NoEpoch,
     start_prices |-> EmptyMap,
     last_5m_bucket |-> NoBucket,
     last_15m_bucket |-> NoBucket,
     prices_1s |-> <<>>,
     rolling_returns |-> <<>>,
     rolling_return_stats |-> [count |-> 0],
     sigma1_window_returns |-> <<>>,
     sigma1_stats |-> [count |-> 0],
     books |-> [tid \in StrategyTokens |-> [ask |-> NoAsk]],
     price_is_stale |-> FALSE]

\* RollingStats.add / RollingStats.remove, of a return that may be None
StatsAdd(stats, ret) ==
    IF ret = NoRet THEN stats ELSE [count |-> stats.count + 1]
StatsRemove(stats, ret) ==
    IF ret = NoRet \/ stats.count <= 0 THEN stats ELSE [count |-> stats.count - 1]

\* deque.append on a deque of the given maxlen
DequeAppend(q, x, maxlen) ==
    IF Len(q) >= maxlen THEN Append(Tail(q), x) ELSE Append(q, x)

\* validate_price_source, on the source the metadata names
ValidatePriceSource(metadata) == metadata.source = "chainlink_rtds"

\* on_price's verdict on the tick's age; wall is time.time() at the call
TickIsStale(sm, ts, metadata) ==
    LET historical_replay == Abs(metadata.wall - ts) > sm.price_stale_after_seconds * 10
        stale_by_event_clock == (ts - metadata.timestamp) > sm.price_stale_after_seconds
        stale_by_wall_clock_eval ==
            (metadata.wall - metadata.timestamp) > sm.price_stale_after_seconds
        stale_by_wall_clock == IF historical_replay THEN FALSE ELSE stale_by_wall_clock_eval
    IN stale_by_event_clock \/ stale_by_wall_clock

\* on_price: the new sample enters the windows
PushSample(sm, sec, price) ==
    LET prev_price == sm.prices_1s[Len(sm.prices_1s)].price
        latest_ret == IF prev_price > 0 THEN <<prev_price, price>> ELSE NoRet
        full == Len(sm.sigma1_window_returns) = 60
        sigma_stats == IF full
                       THEN StatsRemove(sm.sigma1_stats, Head(sm.sigma1_window_returns))
                       ELSE sm.sigma1_stats
        pushed == IF Len(sm.prices_1s) > 0
                  THEN [sm EXCEPT
                           !.rolling_returns = Append(@, latest_ret),
                           !.rolling_return_stats = StatsAdd(@, latest_ret),
                           !.sigma1_window_returns = DequeAppend(@, latest_ret, 60),
                           !.sigma1_stats = StatsAdd(sigma_stats, latest_ret)]
                  ELSE sm
    IN [pushed EXCEPT
           !.prices_1s = DequeAppend(@, [sec |-> sec, price |-> price],
                                     Max(120, sm.rolling_window_seconds * 2))]

\* on_price: samples older than the rolling window leave from the left
RECURSIVE DropExpired(_, _)
DropExpired(sm, cutoff) ==
    IF Len(sm.prices_1s) > 0 /\ Head(sm.prices_1s).sec < cutoff
    THEN DropExpired(
             IF Len(sm.rolling_returns) > 0
             THEN [sm EXCEPT !.prices_1s = Tail(@),
                             !.rolling_returns = Tail(@),
                             !.rolling_return_stats =
                                 StatsRemove(@, Head(sm.rolling_returns))]
             ELSE [sm EXCEPT !.prices_1s = Tail(@)],
             cutoff)
    ELSE sm

\* on_price: the anchors of the 5-minute and 15-minute buckets
UpdateStartPricesEveryTick(sm, sec, price) ==
    [sm EXCEPT !.last_5m_bucket = sec \div 300,
               !.last_15m_bucket = sec \div 900,
               !.start_prices = [k \in {300, 900} |-> price]]

UpdateStartPrices(sm, sec, price) ==
    LET bucket_5m == sec \div 300
        bucket_15m == sec \div 900
        sm5 == IF bucket_5m # sm.last_5m_bucket
               THEN [sm EXCEPT !.last_5m_bucket = bucket_5m,
                               !.start_prices =
                                   [k \in DOMAIN @ \cup {300} |->
                                       IF k = 300 THEN price ELSE @[k]]]
               ELSE sm
    IN IF bucket_15m # sm5.last_15m_bucket
       THEN [sm5 EXCEPT !.last_15m_bucket = bucket_15m,
                        !.start_prices =
                            [k \in DOMAIN @ \cup {900} |->
                                IF k = 900 THEN price ELSE @[k]]]
       ELSE sm5

\* _set_watch_mode
SetWatchMode(sm, enabled, ts) ==
    IF enabled = sm.watch_mode THEN sm
    ELSE [sm EXCEPT !.watch_mode = enabled,
                    !.watch_mode_started_at = IF enabled THEN ts ELSE NoEpoch]

\* on_price: whether watch mode has run out at second sec
WatchModeExpired(sm, sec) ==
    /\ sm.watch_mode
    /\ sm.watch_mode_started_at # NoEpoch
    /\ sec - sm.watch_mode_started_at >= sm.watch_mode_expiry_seconds

\* on_price: the expiry of watch mode starts a fresh window on this sample
ExpireWatchModeKeepsWindow(sm, sec, price) ==
    SetWatchMode(sm, FALSE, sec)

ExpireWatchMode(sm, sec, price) ==
    [SetWatchMode(sm, FALSE, sec) EXCEPT
        !.prices_1s = <<[sec |-> sec, price |-> price]>>,
        !.rolling_returns = <<>>,
        !.rolling_return_stats = [count |-> 0],
        !.sigma1_window_returns = <<>>,
        !.sigma1_stats = [count |-> 0]]

\* on_price: the rolling-return trigger (the z-score trigger needs
\* watch_zscore_threshold > 0)
TriggerByReturn(sm, price) ==
    LET first_price == Head(sm.prices_1s).price
    IN /\ first_price > 0
       /\ Abs(price - first_price) * 1000 >= sm.threshold * first_price

\* on_price on a tick that passed the source and staleness checks
AcceptTick(sm, sec, price) ==
    LET fresh == [sm EXCEPT !.price_is_stale = FALSE]
        windowed == DropExpired(PushSample(fresh, sec, price),
                                sec - sm.rolling_window_seconds)
        anchored == UpdateStartPrices([windowed EXCEPT !.last_price = price], sec, price)
    IN IF WatchModeExpired(anchored, sec) THEN ExpireWatchMode(anchored, sec, price)
       ELSE IF Len(anchored.prices_1s) < 2 THEN anchored
       ELSE IF TriggerByReturn(anchored, price) /\ ~anchored.price_is_stale
            THEN SetWatchMode(anchored, TRUE, sec)
            ELSE anchored

\* on_price with a stale tick: the flag is raised and nothing else happens
StaleTickEntersWindow(sm, sec, price) ==
    [AcceptTick(sm, sec, price) EXCEPT !.price_is_stale = TRUE]

StaleTick(sm, sec, price) ==
    [sm EXCEPT !.price_is_stale = TRUE]

\* on_price with a tick from another source: nothing happens
InvalidTickClearsStale(sm) == [sm EXCEPT !.price_is_stale = FALSE]

InvalidTick(sm) == sm

\* what on_price makes of a tick: "invalid", "stale" or "accepted"
TickOutcome(sm, ts, metadata) ==
    IF ~ValidatePriceSource(metadata) THEN "invalid"
    ELSE IF TickIsStale(sm, ts, metadata) THEN "stale"
    ELSE "accepted"

\* StrategyStateMachine.on_price
OnPrice(sm, ts, price, metadata) ==
    IF TickOutcome(sm, ts, metadata) = "invalid" THEN InvalidTick(sm)
    ELSE IF TickOutcome(sm, ts, metadata) = "stale" THEN StaleTick(sm, ts, price)
    ELSE AcceptTick(sm, ts, price)

\* StrategyStateMachine.on_book: a level that is None keeps the previous one
OnBook(sm, token_id, ask) ==
    IF ask = NoAsk THEN sm ELSE [sm EXCEPT !.books[token_id].ask = ask]

\* in_hammer_window
InHammerWindowOneSecondLate(sm, now_ts, end_epoch) ==
    -1 <= (end_epoch - now_ts) /\ (end_epoch - now_ts) <= sm.hammer_secs

InHammerWindow(sm, now_ts, end_epoch) ==
    0 <= (end_epoch - now_ts) /\ (end_epoch - now_ts) <= sm.hammer_secs

\* _sigma1 > 0: sqrt(max(m2 / .., 1e-12)) is positive whenever it is computed
Sigma1Positive(sm) ==
    ~(Len(sm.prices_1s) < 61) /\ ~(sm.sigma1_stats.count <= 0)

\* _candidate_ev up to the sigma_T test: the candidates it returns, none or one
CandidateEv(sm, market, direction, tid) ==
    LET curr == sm.last_price
        ask == sm.books[tid].ask
        horizon_key == market.horizon_minutes * 60
    IN IF curr = NoPrice \/ ask <= 0 THEN {}
       ELSE IF horizon_key \notin DOMAIN sm.start_prices THEN {}
       ELSE IF ask > sm.max_entry_price THEN {}
       ELSE IF Abs(curr - sm.start_prices[horizon_key]) <= sm.d_min THEN {}
       ELSE IF ~Sigma1Positive(sm) THEN {}
       ELSE {[market |-> market, direction |-> direction, token_id |-> tid,
              ask |-> ask, d |-> Abs(curr - sm.start_prices[horizon_key])]}

NoMarket ==
    [slug |-> "none", horizon_minutes |-> 0, start_epoch |-> NoEpoch,
     end_epoch |-> NoEpoch, up_token_id |-> "none", down_token_id |-> "none"]

\* pick_best returning None
NoCandidate ==
    [market |-> NoMarket, direction |-> "none", token_id |-> "none", ask |-> NoAsk, d |-> 0]

\* pick_best: what it may return
PickBest(sm, now_ts, markets) ==
    LET in_window == {m \in markets : InHammerWindow(sm, now_ts, m.end_epoch)}
        sides == UNION {{<<m, "UP", m.up_token_id>>, <<m, "DOWN", m.down_token_id>>} :
                        m \in in_window}
        candidates == UNION {CandidateEv(sm, side[1], side[2], side[3]) :
                             side \in {s \in sides : sm.books[s[3]].ask # NoAsk}}
    IN IF sm.price_is_stale THEN {NoCandidate}
       ELSE IF candidates = {} THEN {NoCandidate}
       ELSE candidates

----------------------------------------------------------------------------
(* The quorum health monitor (strategy/quorum_health.py).
   Its times are tenths of a second, prices are whole dollars and
   divergence_threshold_pct is per mille.  A median is kept doubled, so that
   the mean of two middle prices stays an integer; a divergence is kept as
   the pair <<numerator, denominator>> of the fraction it is. *)

QuorumSettings ==
    [chainlink_max_lag_seconds |-> 25, spot_max_lag_seconds |-> 25,
     divergence_threshold_pct |-> 5, divergence_sustain_seconds |-> 50,
     spot_quorum_min_sources |-> 2]

SpotFeeds == {"binance", "coinbase"}

NoSample == [price |-> NoPrice, payload_ts |-> NoEpoch, received_ts |-> NoEpoch]

\* QuorumHealth.__init__
QuorumHealth(st) ==
    [chainlink_max_lag_seconds |-> st.chainlink_max_lag_seconds,
     spot_max_lag_seconds |-> st.spot_max_lag_seconds,
     divergence_threshold_pct |-> st.divergence_threshold_pct,
     divergence_sustain_seconds |-> st.divergence_sustain_seconds,
     min_spot_sources |-> st.spot_quorum_min_sources,
     chainlink_sample |-> NoSample,
     spot_samples |-> EmptyMap,
     divergence_started_at |-> NoEpoch]

FeedSample(price, payload_ts, received_ts) ==
    [price |-> price, payload_ts |-> payload_ts, received_ts |-> received_ts]

UpdateChainlink(q, price, payload_ts, received_ts) ==
    [q EXCEPT !.chainlink_sample = FeedSample(price, payload_ts, received_ts)]

UpdateSpot(q, spot_feed, price, payload_ts, received_ts) ==
    [q EXCEPT !.spot_samples =
        [f \in DOMAIN @ \cup {spot_feed} |->
            IF f = spot_feed THEN FeedSample(price, payload_ts, received_ts) ELSE @[f]]]

\* the prices of the given spot feeds in ascending order
RECURSIVE SortedPrices(_, _)
SortedPrices(q, feeds) ==
    IF feeds = {} THEN <<>>
    ELSE LET least == CHOOSE f \in feeds :
                         \A g \in feeds : q.spot_samples[f].price <= q.spot_samples[g].price
         IN <<q.spot_samples[least].price>> \o SortedPrices(q, feeds \ {least})

\* statistics.median, doubled
MedianTimesTwo(prices) ==
    IF Len(prices) % 2 = 1 THEN 2 * prices[(Len(prices) + 1) \div 2]
    ELSE prices[Len(prices) \div 2] + prices[(Len(prices) \div 2) + 1]

\* evaluate: the oracle sample is older than chainlink_max_lag_seconds
ChainlinkStaleByReceipt(q, current) ==
    Max(0, current - q.chainlink_sample.received_ts) > q.chainlink_max_lag_seconds

ChainlinkStale(q, current) ==
    Max(0, current - q.chainlink_sample.payload_ts) > q.chainlink_max_lag_seconds

\* evaluate: the spot feeds whose samples are fresh
FreshSpotFeeds(q, current) ==
    {f \in DOMAIN q.spot_samples :
        Max(0, current - q.spot_samples[f].payload_ts) <= q.spot_max_lag_seconds}

\* evaluate: divergence_pct of the oracle price from the median of the fresh
\* spot prices, as <<numerator, denominator>> of a percentage
DivergencePct(q, current) ==
    <<Abs(2 * q.chainlink_sample.price
            - MedianTimesTwo(SortedPrices(q, FreshSpotFeeds(q, current)))) * 100,
      2 * Abs(q.chainlink_sample.price)>>

\* evaluate: divergence_pct >= divergence_threshold_pct (per mille here)
AtOrAboveThreshold(q, divergence_pct) ==
    divergence_pct[1] * 10 >= q.divergence_threshold_pct * divergence_pct[2]

\* evaluate: the running divergence has lasted divergence_sustain_seconds
SustainedStrictly(q, current) ==
    (current - q.divergence_started_at) > q.divergence_sustain_seconds

Sustained(q, current) ==
    (current - q.divergence_started_at) >= q.divergence_sustain_seconds

QuorumDecision(trading_allowed, reason_codes, chainlink_stale, divergence_pct) ==
    [trading_allowed |-> trading_allowed, reason_codes |-> reason_codes,
     chainlink_stale |-> chainlink_stale, spot_quorum_divergence_pct |-> divergence_pct]

\* QuorumHealth.evaluate(now): the monitor afterwards and the decision
Evaluate(q, current) ==
    IF q.chainlink_sample = NoSample
    THEN [quorum |-> q,
          decision |-> QuorumDecision(FALSE, <<"CHAINLINK_MISSING">>, TRUE, NoRet)]
    ELSE LET chainlink_stale == ChainlinkStale(q, current)
             stale_reasons == IF chainlink_stale THEN <<"CHAINLINK_STALE">> ELSE <<>>
             fresh == FreshSpotFeeds(q, current)
             divergence_pct == DivergencePct(q, current)
             above == AtOrAboveThreshold(q, divergence_pct)
             reasons == IF above /\ q.divergence_started_at # NoEpoch
                           /\ Sustained(q, current)
                        THEN Append(stale_reasons, "SPOT_DIVERGENCE_SUSTAINED")
                        ELSE stale_reasons
         IN IF Cardinality(fresh) < q.min_spot_sources
            THEN [quorum |-> [q EXCEPT !.divergence_started_at = NoEpoch],
                  decision |-> QuorumDecision(
                      FALSE, Append(stale_reasons, "SPOT_QUORUM_UNAVAILABLE"),
                      chainlink_stale, NoRet)]
            ELSE [quorum |-> [q EXCEPT !.divergence_started_at =
                                 IF ~above THEN NoEpoch
                                 ELSE IF @ = NoEpoch THEN current ELSE @],
                  decision |-> QuorumDecision(Len(reasons) = 0, reasons,
                                              chainlink_stale, divergence_pct)]

NoDecision == QuorumDecision(FALSE, <<"none">>, FALSE, NoRet)

----------------------------------------------------------------------------
(* The supervisor's streams, workers and monitors (main.py, feeds/,
   ops/recorder.py, execution/heartbeat_monitor.py).  A coroutine is the
   record of its local variables; one action is one run of it from the
   await it was suspended at to the next one.  A task is "pending" until
   the event loop completes it. *)

\* stream_prices_with_fallback up to its first await
PriceStreamStart(use_fallback_feed) ==
    [use_fallback_feed |-> use_fallback_feed,
     using_fallback |-> FALSE,
     rtds_task |-> "pending",
     fallback_task |-> "none",
     fallback_iter |-> "running",
     yielded |-> <<>>,
     stalls |-> 0]

\* stream_clob_with_resubscribe before its first step, over get_token_ids.
\* tuple(sorted(set)) is equal for equal sets only, so a snapshot is its set.
BookStreamStart(token_ids) ==
    [token_ids |-> token_ids,       \* what get_token_ids() returns now
     snapshot |-> {},
     pc |-> "start",
     subscriptions |-> <<>>,        \* the calls of clob.stream_books, in order
     observed |-> <<>>,             \* the sets get_token_ids() returned, in order
     last_top |-> [call |-> 0],     \* the stream_books call the last BookTop is of
     tops |-> 0,
     changes |-> 0]

\* the values get_token_ids() returned, a repeated value noted once
Observe(observed, token_ids) ==
    IF Len(observed) > 0 /\ observed[Len(observed)] = token_ids THEN observed
    ELSE Append(observed, token_ids)

\* the test made after a BookTop was yielded
TokenSetGrew(current, snapshot) == ~(current \subseteq snapshot)

TokenSetChanged(current, snapshot) == current # snapshot

\* the head of the outer loop: snapshot, then idle sleep or stream_books
Subscribe(bs) ==
    LET seen == [bs EXCEPT !.snapshot = bs.token_ids,
                           !.observed = Observe(@, bs.token_ids)]
    IN IF bs.token_ids = {} THEN [seen EXCEPT !.pc = "idle_sleep"]
       ELSE [seen EXCEPT !.pc = "streaming",
                         !.subscriptions = Append(@, bs.token_ids)]

\* the consumer asks for the next BookTop after one was yielded
AfterYield(bs) ==
    LET seen == [bs EXCEPT !.observed = Observe(@, bs.token_ids)]
    IN IF TokenSetChanged(bs.token_ids, bs.snapshot) THEN Subscribe(seen)
       ELSE [seen EXCEPT !.pc = "streaming"]

\* run_resilient before its worker's first run; delays are whole seconds
RunResilientStart ==
    [pc |-> "running",      \* "running" the worker, "sleeping" the backoff, "ended"
     backoff |-> 1,
     slept |-> 0,           \* the delay of the last sleep
     run |-> 0,             \* crashes since the start or the last completion
     completions |-> 0,
     raised |-> "none"]     \* what run_resilient raised to the task group

\* backoff = min(60.0, backoff * 2)
BackoffUncapped(backoff) == backoff * 2

BackoffAfterCrash(backoff) == Min(60, backoff * 2)

\* RTDSFeed as orchestrate constructs it; delays are whole seconds
RtdsSettings == [reconnect_delay_min |-> 1, reconnect_delay_max |-> 60]

\* RTDSFeed.stream_prices before its first connection.  Whether
\* reconnect_stability_duration has passed since the subscription is the
\* flag stable; a link is "dead" once its peer is gone without a close (no
\* frame, pong or error arrives on it any more).
RtdsStart ==
    [pc |-> "connecting",       \* "connecting", "receiving", "sleeping"
     backoff |-> RtdsSettings.reconnect_delay_min,
     backoff_reset |-> FALSE,
     stable |-> FALSE,
     failed_pings |-> 0,
     hb_task |-> "none",        \* "none", "running", "raised", "cancelled"
     link |-> "none",           \* "none", "live", "dead"
     slept |-> 0,               \* the delay of the last sleep
     run |-> 0,                 \* sleeps since the start or the last reset
     resets |-> 0,
     connections |-> 0,
     frame |-> "none"]          \* the last frame received

\* stream_prices: the test made on every message before it is parsed
ResetsOnAnyMessage(r) == ~r.backoff_reset

ResetsBackoff(r) == ~r.backoff_reset /\ r.stable

\* stream_prices: a message arrives on the connection
OnMessage(r) ==
    IF ResetsBackoff(r)
    THEN [r EXCEPT !.backoff = RtdsSettings.reconnect_delay_min,
                   !.backoff_reset = TRUE, !.run = 0, !.resets = @ + 1]
    ELSE r

\* the frames a peer can send: a well-formed oracle tick, a text that is
\* not JSON, a JSON value that is not an object, and oracle ticks whose
\* price or timestamp is missing or not a number
RtdsFrames ==
    {"tick", "invalid_json", "not_object", "missing_price", "bad_price",
     "missing_timestamp", "bad_timestamp"}

\* stream_prices: what the body of the receive loop does with a frame.
\* orjson.loads and data.get are made outside any try of the loop body
ParseFrame(frame) ==
    CASE frame = "invalid_json" -> "raise"      \* orjson.JSONDecodeError
      [] frame = "not_object" -> "raise"        \* AttributeError: no .get
      [] frame = "tick" -> "yield"
      [] OTHER -> "drop"                        \* _log_dropped_message, continue

\* stream_prices: an exception leaves the connection: the heartbeat task is
\* cancelled and awaited, and the current backoff is slept
OnConnectionError(r) ==
    [r EXCEPT !.pc = "sleeping", !.slept = r.backoff, !.run = @ + 1,
              !.hb_task = IF @ = "running" THEN "cancelled" ELSE @,
              !.link = "none"]

\* stream_prices: one turn of the receive loop
OnFrame(r, frame) ==
    LET received == [OnMessage(r) EXCEPT !.frame = frame]
    IN IF ParseFrame(frame) = "raise" THEN OnConnectionError(received)
       ELSE received

\* stream_prices: the sleep ends
AfterSleep(r) ==
    [r EXCEPT !.pc = "connecting",
              !.backoff = Min(RtdsSettings.reconnect_delay_max, @ * 2)]

\* _heartbeat: a ping fails (a send error, or no pong within pong_timeout)
OnPingFailed(r) ==
    [r EXCEPT !.failed_pings = @ + 1,
              !.hb_task = IF r.failed_pings + 1 >= 2 THEN "raised" ELSE @]

\* CLOBWebSocket as orchestrate constructs it; delays are whole seconds
ClobSettings == [reconnect_delay_min |-> 1, reconnect_delay_max |-> 60]

\* CLOBWebSocket.stream_books(token_ids) before its first connection
StreamBooksStart ==
    [pc |-> "connecting",        \* "connecting", "receiving", "sleeping", "ended"
     backoff |-> ClobSettings.reconnect_delay_min,
     failed_pings |-> 0,
     hb_task |-> "none",         \* "none", "running", "raised", "cancelled"
     stale_task |-> "none",      \* "none", "running", "cancelled"
     subscribed |-> 0,           \* subscriptions sent for token_ids
     tops |-> 0,                 \* messages whose BookTops were yielded
     failures |-> 0,
     surfaced |-> "none",        \* what stream_books raised to its consumer
     frame |-> "none"]           \* the last frame received

\* stream_books: the receive loop is left by an exception.  The finally
\* clause cancels both tasks and awaits them under suppress(Exception):
\* awaiting a task that was cancelled while running raises CancelledError,
\* which is no Exception, leaves the clause and passes `except Exception`.
LeaveReceiveLoop(c) ==
    LET cancelled == [c EXCEPT
                         !.hb_task = IF @ = "running" THEN "cancelled" ELSE @,
                         !.stale_task = IF @ = "running" THEN "cancelled" ELSE @]
    IN IF cancelled.hb_task = "cancelled" \/ cancelled.stale_task = "cancelled"
       THEN [cancelled EXCEPT !.pc = "ended", !.surfaced = "CancelledError"]
       ELSE [cancelled EXCEPT !.pc = "sleeping"]

\* the frames a peer can send: a well-formed book snapshot, a text that is
\* not JSON, a JSON value that is neither object nor array, and snapshots
\* whose price, timestamp or fill_prob is missing or not a number
ClobFrames ==
    {"book", "invalid_json", "not_object", "missing_price", "bad_price",
     "missing_timestamp", "bad_timestamp", "missing_fill_prob", "bad_fill_prob"}

\* _parse_raw_message and _parse_event: "tops" when BookTops come back,
\* "none" when the frame is dropped, "raise" when float() raises in
\* normalize_ts or on fill_prob
ParseRawMessage(frame) ==
    CASE frame \in {"bad_timestamp", "bad_fill_prob"} -> "raise"
      [] frame \in {"book", "missing_timestamp", "missing_fill_prob"} -> "tops"
      [] OTHER -> "none"

\* stream_books: one turn of the receive loop
OnBookFrame(c, frame) ==
    LET received == [c EXCEPT !.frame = frame]
    IN CASE ParseRawMessage(frame) = "raise" -> LeaveReceiveLoop(received)
         [] ParseRawMessage(frame) = "tops" ->
               [received EXCEPT !.tops = @ + 1,
                                !.backoff = ClobSettings.reconnect_delay_min]
         [] OTHER ->
               [received EXCEPT !.backoff = ClobSettings.reconnect_delay_min]

\* EventRecorder.__init__ and start; an event is the number of the record
\* call that made it
EventRecorder(queue_maxsize, enabled) ==
    [enabled |-> enabled,
     maxsize |-> Max(1, queue_maxsize),
     queue |-> <<>>,
     dropped_events |-> 0,
     written |-> <<>>,          \* the lines _writer_loop wrote
     recorded |-> 0,            \* record calls so far
     last |-> "none"]           \* what the last call did

\* asyncio.Queue.put_nowait, QueueFull being the result "full"
PutDropsOldest(queue, maxsize, event) ==
    IF Len(queue) >= maxsize
    THEN [queue |-> Append(Tail(queue), event), full |-> FALSE]
    ELSE [queue |-> Append(queue, event), full |-> FALSE]

PutNowait(queue, maxsize, event) ==
    IF Len(queue) >= maxsize THEN [queue |-> queue, full |-> TRUE]
    ELSE [queue |-> Append(queue, event), full |-> FALSE]

\* EventRecorder.record
Record(rec, event) ==
    LET put == PutNowait(rec.queue, rec.maxsize, event)
        called == [rec EXCEPT !.recorded = @ + 1]
    IN IF ~rec.enabled THEN [called EXCEPT !.last = "ignored"]
       ELSE IF put.full
            THEN [called EXCEPT !.dropped_events = @ + 1, !.last = "dropped"]
            ELSE [called EXCEPT !.queue = put.queue, !.last = "queued"]

\* HeartbeatMonitor.__init__; results and invoked are the record of its
\* ticks: the heartbeat result of each tick, and whether that tick invoked
\* on_failure_threshold_exceeded
HeartbeatMonitor(enabled, max_consecutive_failures, cancel_on_failure, has_handler) ==
    [enabled |-> enabled,
     max_consecutive_failures |-> Max(1, max_consecutive_failures),
     cancel_on_failure |-> cancel_on_failure,
     has_handler |-> has_handler,
     running |-> FALSE,
     consecutive_failures |-> 0,
     threshold_action_triggered_for_streak |-> FALSE,
     results |-> <<>>,
     invoked |-> <<>>]

\* _tick_once with the streak flag ignored
TickOnceEveryFailure(m, heartbeat_ok) ==
    LET quiet == [m EXCEPT !.results = Append(@, heartbeat_ok),
                           !.invoked = Append(@, FALSE)]
        failed == [quiet EXCEPT !.consecutive_failures = @ + 1]
    IN IF heartbeat_ok
       THEN [quiet EXCEPT !.consecutive_failures = 0,
                          !.threshold_action_triggered_for_streak = FALSE]
       ELSE IF failed.consecutive_failures < failed.max_consecutive_failures
       THEN failed
       ELSE IF ~failed.cancel_on_failure THEN failed
       ELSE IF ~failed.has_handler
       THEN [failed EXCEPT !.threshold_action_triggered_for_streak = TRUE]
       ELSE [failed EXCEPT !.threshold_action_triggered_for_streak = TRUE,
                           !.invoked = Append(m.invoked, TRUE)]

\* HeartbeatMonitor._tick_once; heartbeat_ok is false for a heartbeat that
\* returned false and for one that raised.  What the handler does, and
\* whether it raises, changes nothing in the monitor
TickOnce(m, heartbeat_ok) ==
    LET quiet == [m EXCEPT !.results = Append(@, heartbeat_ok),
                           !.invoked = Append(@, FALSE)]
        failed == [quiet EXCEPT !.consecutive_failures = @ + 1]
    IN IF heartbeat_ok
       THEN [quiet EXCEPT !.consecutive_failures = 0,
                          !.threshold_action_triggered_for_streak = FALSE]
       ELSE IF failed.consecutive_failures < failed.max_consecutive_failures
       THEN failed
       ELSE IF failed.threshold_action_triggered_for_streak
               \/ ~failed.cancel_on_failure
       THEN failed
       ELSE IF ~failed.has_handler
       THEN [failed EXCEPT !.threshold_action_triggered_for_streak = TRUE]
       ELSE [failed EXCEPT !.threshold_action_triggered_for_streak = TRUE,
                           !.invoked = Append(m.invoked, TRUE)]

\* the tokens, prices (mills) and sizes of the book events; NoPrice is None
TopTokens == {"t1", "t2"}

BookPrices == {NoPrice, 450}

BookSizes == {NoPrice, 50}

NoTop ==
    [best_bid |-> NoPrice, best_ask |-> NoPrice,
     best_bid_size |-> NoPrice, best_ask_size |-> NoPrice]

NoEvent ==
    [schema |-> "none", token_id |-> "", bid |-> NoPrice, ask |-> NoPrice,
     bid_size |-> NoPrice, ask_size |-> NoPrice, side |-> ""]

\* the events after _extract_price_size and _coerce_positive_float: a
\* snapshot has each side whole (price and size) or not at all; a
\* price_change of the new schema has each best_* field or not; a legacy
\* level update has a side, a price and a size
BookEvents ==
    { [schema |-> "snapshot", token_id |-> t, bid |-> b, ask |-> a,
       bid_size |-> IF b = NoPrice THEN NoPrice ELSE 50,
       ask_size |-> IF a = NoPrice THEN NoPrice ELSE 50, side |-> ""] :
         t \in TopTokens, b \in BookPrices, a \in BookPrices }
    \cup
    { [schema |-> "price_change", token_id |-> t, bid |-> b, ask |-> a,
       bid_size |-> bs, ask_size |-> as, side |-> ""] :
         t \in TopTokens, b \in BookPrices, a \in BookPrices,
         bs \in BookSizes, as \in BookSizes }
    \cup
    { [schema |-> "legacy", token_id |-> t,
       bid |-> IF sd = "buy" THEN px ELSE NoPrice,
       ask |-> IF sd = "sell" THEN px ELSE NoPrice,
       bid_size |-> IF sd = "buy" THEN sz ELSE NoPrice,
       ask_size |-> IF sd = "sell" THEN sz ELSE NoPrice, side |-> sd] :
         t \in TopTokens, sd \in {"buy", "sell", "other"},
         px \in BookPrices, sz \in BookSizes }

\* CLOBWebSocket.__init__: no book top yet, nothing parsed
BookTopsStart ==
    [tops |-> [t \in TopTokens |-> NoTop], event |-> NoEvent, yielded |-> <<>>]

\* _record_book_top that stores what the event carries
RecordBookTopOverwrites(tops, token_id, bid, ask, bid_size, ask_size) ==
    [tops EXCEPT ![token_id] =
        [best_bid |-> bid, best_ask |-> ask,
         best_bid_size |-> bid_size, best_ask_size |-> ask_size]]

\* _record_book_top: a field the event does not carry keeps the value of
\* the token's previous top (None when there is none)
RecordBookTop(tops, token_id, bid, ask, bid_size, ask_size) ==
    LET prev == tops[token_id]
    IN [tops EXCEPT ![token_id] =
           [best_bid |-> IF bid # NoPrice THEN bid ELSE prev.best_bid,
            best_ask |-> IF ask # NoPrice THEN ask ELSE prev.best_ask,
            best_bid_size |-> IF bid_size # NoPrice THEN bid_size
                              ELSE prev.best_bid_size,
            best_ask_size |-> IF ask_size # NoPrice THEN ask_size
                              ELSE prev.best_ask_size]]

\* _parse_event for one event: whether it records a top.  A snapshot
\* without a top of book is dropped; _apply_legacy_level_update returns
\* None without a price or with a side that is neither buy nor sell
RecordsTop(event) ==
    CASE event.schema = "snapshot" -> event.bid # NoPrice \/ event.ask # NoPrice
      [] event.schema = "price_change" -> TRUE
      [] event.schema = "legacy" ->
            /\ event.side \in {"buy", "sell"}
            /\ event.bid # NoPrice \/ event.ask # NoPrice
      [] OTHER -> FALSE

\* _parse_raw_message on a message of one event: the tops afterwards and
\* the BookTops it returns
ParseEvent(bt, event) ==
    IF RecordsTop(event)
    THEN LET after == RecordBookTop(bt.tops, event.token_id, event.bid,
                                    event.ask, event.bid_size, event.ask_size)
         IN [tops |-> after, event |-> event,
             yielded |-> <<after[event.token_id]>>]
    ELSE [tops |-> bt.tops, event |-> event, yielded |-> <<>>]

\* buy_fok's submission threads: asyncio.wait_for gives up on the thread
\* after order_submit_timeout_seconds, the thread itself cannot be cancelled
\* and runs _submit_live_fok_order to its end.  running: the orders of the
\* threads still in post_order after their buy_fok returned; filled: those
\* of them the venue has filled since; accepted: the orders buy_fok returned
\* true for, each with the end of the market it was placed on
NoSubmissions == [running |-> <<>>, filled |-> <<>>, accepted |-> <<>>]

\* the supervisor's runtime as orchestrate starts it
RuntimeConstructed ==
    /\ price_stream = PriceStreamStart(TRUE)
    /\ book_stream = BookStreamStart({})
    /\ worker = RunResilientStart
    /\ rtds = RtdsStart
    /\ clob = StreamBooksStart
    /\ recorder = EventRecorder(10000, FALSE)
    /\ monitor = HeartbeatMonitor(TRUE, 2, TRUE, TRUE)
    /\ book_tops = BookTopsStart
    /\ submissions = NoSubmissions

----------------------------------------------------------------------------
(* The trader *)

Eq == [cached |-> cached_equity_usd, ts |-> last_equity_refresh_ts]

\* whether a refresh queries the venue, and whether that query fails
RefreshDue(eq, force, t) == force \/ (t - eq.ts) >= settings.equity_refresh_seconds
RefreshFailed(cl, balance) == QueryExchangeEquityUsd(cl, balance) = 0

\* Trader.__init__ on the file f at time t
Construct(st, f, t) ==
    LET r0 == LoadRiskState(f)
        r1 == ResetDailyPnlIfNeeded(r0, t)
        cached == Max(0, st.equity_usd)
        r2 == IF r1.peak_equity_usd <= 0 THEN [r1 EXCEPT !.peak_equity_usd = cached]
              ELSE r1
    IN [risk |-> r2,
        cached |-> cached,
        file |-> IF r0.last_pnl_reset_date_utc # TodayUtc(t) \/ r1.peak_equity_usd <= 0
                 THEN JsonFile(Dump(r2)) ELSE f]

\* what happened before the first start, as far as the file tells: the trades
\* of the running hour and the realized PnL of its date
HistOfFile(f, t) ==
    [accepted |-> IF LoadRiskState(f).last_trade_hour = HourUtc(t)
                     /\ LoadRiskState(f).last_pnl_reset_date_utc = TodayUtc(t)
                  THEN [hour |-> AbsHour(t), n |-> LoadRiskState(f).trades_this_hour]
                  ELSE [hour |-> 0, n |-> 0],
     pnl |-> [day |-> LoadRiskState(f).last_pnl_reset_date_utc,
              amount |-> LoadRiskState(f).daily_realized_pnl],
     refresh_failed |-> FALSE,
     orders |-> 0]

\* nothing has been evaluated yet: the clock, the clock advances and the
\* evaluations so far, the times of the evaluations of the running unbroken
\* series at or above the divergence threshold, whether the last of those
\* reported a sustained divergence, and the evaluations below the threshold
\* since it did
JournalStart ==
    [clock |-> 0, advances |-> 0, evaluations |-> 0, run |-> <<>>,
     blocked |-> FALSE, calm |-> 0]

\* the decision engine as orchestrate constructs it, before any event
NoCall ==
    [op |-> "none", ts |-> NoEpoch, price |-> NoPrice, outcome |-> "none",
     watch_expired |-> FALSE, now |-> NoEpoch, result |-> NoCandidate]

EngineConstructed ==
    /\ strategy = StrategyStateMachine(StrategySettings)
    /\ feed = [ts |-> 0, n |-> 0, books |-> 0, stale_since |-> FALSE]
    /\ last_call = NoCall
    /\ quorum = QuorumHealth(QuorumSettings)
    /\ decision = NoDecision
    /\ journal = JournalStart

\* the trader as orchestrate constructs it on a start
TraderConstructed(start) ==
    /\ ticks = 0
    /\ settings = start.settings
    /\ client = start.client
    /\ now = start.now
    /\ \E made \in {Construct(start.settings, start.file, start.now)} :
          /\ risk = made.risk
          /\ cached_equity_usd = made.cached
          /\ file = made.file
    /\ hist = HistOfFile(start.file, start.now)
    /\ obs = Observed("construct", start.now, TRUE, 0, NoKey)
    /\ last_equity_refresh_ts = 0
    /\ token_constraints_by_id = [t \in Tokens |-> TokenConstraintsDefault]
    /\ pc = "idle"
    /\ order = NoOrder

Init ==
    /\ \E start \in Starts : TraderConstructed(start)
    /\ EngineConstructed
    /\ RuntimeConstructed

\* the process is restarted on the file it left (with the same credentials
\* and client library, so live authentication ends as it did before)
Restart ==
    /\ pc \in {"idle", "down"}
    /\ \E made \in {Construct(settings, file, now)} :
          /\ risk' = made.risk
          /\ cached_equity_usd' = made.cached
          /\ file' = made.file
    /\ last_equity_refresh_ts' = 0
    /\ token_constraints_by_id' = [t \in Tokens |-> TokenConstraintsDefault]
    /\ pc' = "idle"
    /\ order' = NoOrder
    /\ obs' = Observed("construct", now, TRUE, 0, NoKey)
    /\ UNCHANGED <<engine, runtime>>
    /\ UNCHANGED <<settings, now, ticks, client, hist>>

\* time passes: between handler invocations, or once while buy_fok awaits
\* the submission
Tick ==
    /\ ticks < MaxTicks
    /\ \/ pc = "idle" /\ order' = order
       \/ /\ pc = "checked" /\ ~settings.dry_run /\ client = "ready" /\ ~order.waited
          /\ order' = [order EXCEPT !.waited = TRUE]
    /\ now' = now + TickSeconds
    /\ ticks' = ticks + 1
    /\ obs' = Observed("tick", now', TRUE, 0, NoKey)
    /\ UNCHANGED <<engine, runtime>>
    /\ UNCHANGED <<settings, risk, cached_equity_usd, last_equity_refresh_ts, client,
                   token_constraints_by_id, file, pc, hist>>

UpdateTokenConstraints ==
    /\ pc = "idle"
    /\ \E token_id \in Tokens, update \in ConstraintUpdates :
          LET current == token_constraints_by_id[token_id]
              updated == [min_order_size |-> IF update.min_order_size > 0
                                             THEN update.min_order_size
                                             ELSE current.min_order_size,
                          tick_size |-> IF update.tick_size > 0 THEN update.tick_size
                                        ELSE current.tick_size]
          IN token_constraints_by_id' =
                 [token_constraints_by_id EXCEPT ![token_id] = updated]
    /\ obs' = Observed("constraints", now, TRUE, 0, NoKey)
    /\ UNCHANGED <<engine, runtime>>
    /\ UNCHANGED <<settings, now, ticks, risk, cached_equity_usd, last_equity_refresh_ts,
                   client, file, pc, order, hist>>

\* buy_fok up to the verdict of _check_risk
BuyFokCheck ==
    /\ pc = "idle"
    /\ \E token_id \in Tokens, ask \in Asks, p_hat \in PHats, market \in MarketsAt(now),
          balance \in VenueBalances, cache_tick \in CacheTicks :
          \E eq1 \in {RefreshEquityCache(Eq, risk, FALSE, client, balance, now)} :
          \E sz \in {OrderSizing(token_constraints_by_id[token_id], ask, p_hat, 0,
                                eq1.cached, cache_tick)} :
          \E key \in {MarketExposureKey(token_id, market.horizon, "BUY",
                                       market.market_slug, market.market_start_epoch)} :
          \E c1 \in {CheckRisk(risk, eq1, sz.notional, key, client, balance, now)} :
          \E c \in {IF sz.bumped /\ c1.allowed
                   THEN CheckRisk(c1.risk, c1.eq, sz.notional, key, client, balance, now)
                   ELSE c1} :
             /\ c.allowed => hist.orders < MaxOrders
             /\ risk' = c.risk
             /\ cached_equity_usd' = c.eq.cached
             /\ last_equity_refresh_ts' = c.eq.ts
             /\ file' = IF c1.persisted \/ c.persisted THEN JsonFile(Dump(c.risk)) ELSE file
             /\ obs' = [Observed("check_risk", now, c.allowed, sz.notional, key)
                           EXCEPT !.cleaned = c1.cleaned \/ c.cleaned]
             /\ hist' = [hist EXCEPT !.refresh_failed =
                            IF RefreshDue(Eq, FALSE, now) THEN RefreshFailed(client, balance)
                            ELSE @]
             /\ IF c.allowed
                THEN /\ pc' = "checked"
                     /\ order' = [token |-> token_id, horizon |-> market.horizon,
                                  market_slug |-> market.market_slug,
                                  market_start_epoch |-> market.market_start_epoch,
                                  px |-> sz.px, size |-> sz.size, notional |-> sz.notional,
                                  key |-> key, ts |-> now, waited |-> FALSE,
                                  before |-> risk]
                ELSE /\ pc' = "idle"
                     /\ order' = NoOrder
    /\ UNCHANGED <<engine, runtime>>
    /\ UNCHANGED <<settings, now, ticks, client, token_constraints_by_id>>

\* the ledger update of an order that went through, and buy_fok returning true
PostTradeLedger(resp, venue, balance) ==
    \E u \in {RecordPostTradeUpdates([risk EXCEPT !.trades_this_hour = @ + 1], Eq,
                                       resp, order.key, order.notional,
                                       client, venue, balance, now)} :
       /\ risk' = u.risk
       /\ cached_equity_usd' = u.eq.cached
       /\ last_equity_refresh_ts' = u.eq.ts
       /\ file' = JsonFile(Dump(u.risk))
       /\ obs' = Observed("post_trade", now, TRUE, order.notional, order.key)
       /\ hist' = [hist EXCEPT
              !.orders = @ + 1,
              !.accepted = IF @.hour = AbsHour(order.ts)
                           THEN [@ EXCEPT !.n = @ + 1]
                           ELSE [hour |-> AbsHour(order.ts), n |-> 1],
              !.pnl = IF @.day = TodayUtc(now)
                      THEN [@ EXCEPT !.amount = @ + resp.realized_pnl]
                      ELSE [day |-> TodayUtc(now), amount |-> resp.realized_pnl],
              !.refresh_failed = IF settings.cooldown_minutes > 0
                                 THEN RefreshFailed(client, balance) ELSE @]
       /\ pc' = "idle"
       /\ order' = NoOrder
       /\ UNCHANGED <<settings, now, ticks, client, token_constraints_by_id>>

PostTrade(resp, venue, balance) ==
    /\ PostTradeLedger(resp, venue, balance)
    /\ UNCHANGED <<engine, runtime>>

DryRunFill ==
    /\ pc = "checked"
    /\ settings.dry_run
    /\ PostTrade([realized_pnl |-> 0, filled_notional |-> order.px * order.size,
                  complete_fill_details |-> TRUE],
                 [listed |-> FALSE, positions |-> {}], 0)

\* what buy_fok does to the ledger on the paths that return false after
\* the risk check: nothing
FailedOrderCountsAsTrade(r) == [r EXCEPT !.trades_this_hour = @ + 1]

FailedOrder(r) == r

\* buy_fok returns false: no client, or live authentication not ready
LiveNoClient ==
    /\ pc = "checked"
    /\ ~settings.dry_run
    /\ client # "ready"
    /\ pc' = "idle"
    /\ order' = NoOrder
    /\ risk' = FailedOrder(risk)
    /\ obs' = Observed("no_client", now, FALSE, 0, NoKey)
    /\ UNCHANGED <<engine, runtime>>
    /\ UNCHANGED <<settings, now, ticks, cached_equity_usd, last_equity_refresh_ts,
                   client, token_constraints_by_id, file, hist>>

\* the submission times out, raises, or the venue answers with a falsy response
LiveSubmitFailed ==
    /\ pc = "checked"
    /\ ~settings.dry_run
    /\ client = "ready"
    /\ pc' = "idle"
    /\ order' = NoOrder
    /\ risk' = FailedOrder(risk)
    /\ obs' = Observed("submit_failed", now, FALSE, 0, NoKey)
    /\ UNCHANGED <<engine, runtime>>
    /\ UNCHANGED <<settings, now, ticks, cached_equity_usd, last_equity_refresh_ts,
                   client, token_constraints_by_id, file, hist>>

LiveSubmitFilled ==
    /\ pc = "checked"
    /\ ~settings.dry_run
    /\ client = "ready"
    /\ \E resp \in LiveResponses(order), venue \in VenuePositions(order),
          balance \in VenueBalances :
          PostTrade(resp, venue, balance)

Next ==
    \/ Restart
    \/ Tick
    \/ UpdateTokenConstraints
    \/ BuyFokCheck
    \/ DryRunFill
    \/ LiveNoClient
    \/ LiveSubmitFailed
    \/ LiveSubmitFilled

Spec == Init /\ [][Next]_vars

----------------------------------------------------------------------------
(* A crash while _persist_risk_state writes the file in place *)

\* write_bytes truncates the file and then writes: the process dies after the
\* truncation ("empty") or part of the way through the write ("partial")
CrashInPersist ==
    /\ pc = "checked"
    /\ settings.dry_run \/ client = "ready"
    /\ \E how \in {"empty", "partial"} : file' = TornFile(how)
    /\ pc' = "down"
    /\ order' = NoOrder
    /\ obs' = Observed("crash", now, FALSE, 0, NoKey)
    /\ UNCHANGED <<engine, runtime>>
    /\ UNCHANGED <<settings, now, ticks, risk, cached_equity_usd, last_equity_refresh_ts,
                   client, token_constraints_by_id, hist>>

NextCrash ==
    \/ Next
    \/ CrashInPersist

SpecCrash == Init /\ [][NextCrash]_vars

----------------------------------------------------------------------------
(* The strategy under a stream of oracle ticks, book updates and queries *)

MaxPriceTicks == 3
MaxBookUpdates == 1

\* the end of a 5-minute and of a 15-minute market
Boundary == 2 * 900

Market5 ==
    [slug |-> "btc-updown-5m", horizon_minutes |-> 5, start_epoch |-> Boundary - 300,
     end_epoch |-> Boundary, up_token_id |-> "up5", down_token_id |-> "down5"]
Market15 ==
    [slug |-> "btc-updown-15m", horizon_minutes |-> 15, start_epoch |-> Boundary - 900,
     end_epoch |-> Boundary, up_token_id |-> "up15", down_token_id |-> "down15"]

\* the inputs: seconds between ticks, oracle prices, the tick's source with
\* the age of its payload and the lag of the wall clock behind the tick, the
\* tokens whose book moves and their asks, the times and markets of a query
DeltaTs == {1, 14, 60}
OraclePrices == {2000, 2005, 2020}
TickKinds ==
    {[source |-> "chainlink_rtds", age |-> 0, wall_lag |-> 0],
     [source |-> "binance", age |-> 0, wall_lag |-> 0],
     [source |-> "chainlink_rtds", age |-> 3, wall_lag |-> 0],
     [source |-> "chainlink_rtds", age |-> 0, wall_lag |-> 3],
     [source |-> "chainlink_rtds", age |-> 0, wall_lag |-> 30]}
BookTokens == {"up5", "down15"}
BookAsks == {970, 971}
PickTimes == {Boundary - 16, Boundary - 15, Boundary, Boundary + 1}
MarketLists == {{Market5, Market15}}

Metadata(ts, kind) ==
    [source |-> kind.source, timestamp |-> ts - kind.age, wall |-> ts + kind.wall_lag]

\* the strategy after n fresh one-second ticks at the given price
RECURSIVE Replay(_, _, _, _)
Replay(sm, ts, n, price) ==
    IF n = 0 THEN sm
    ELSE LET after == OnPrice(sm, ts, price,
                              Metadata(ts, [source |-> "chainlink_rtds",
                                            age |-> 0, wall_lag |-> 0]))
         IN IF after.last_price = price THEN Replay(after, ts + 1, n - 1, price)
            ELSE sm

\* a strategy just constructed, and one that has run for 61 seconds and
\* stands 15 seconds before the boundary
InitStrategy ==
    /\ TraderConstructed(Start(BaseSettings, "none", BeforeHour, AbsentFile))
    /\ \/ /\ strategy = StrategyStateMachine(StrategySettings)
          /\ feed = [ts |-> Boundary - 76, n |-> 0, books |-> 0, stale_since |-> FALSE]
       \/ /\ strategy = Replay(StrategyStateMachine(StrategySettings),
                                Boundary - 75, 61, 2000)
          /\ feed = [ts |-> Boundary - 15, n |-> 0, books |-> 0, stale_since |-> FALSE]
    /\ last_call = NoCall
    /\ quorum = QuorumHealth(QuorumSettings)
    /\ decision = NoDecision
    /\ journal = JournalStart
    /\ RuntimeConstructed

trader == <<settings, now, ticks, risk, cached_equity_usd, last_equity_refresh_ts,
            client, token_constraints_by_id, file, pc, order, obs, hist>>

\* the feed delivers a tick and on_price runs on it
OnPriceTick ==
    /\ feed.n < MaxPriceTicks
    /\ \E dt \in DeltaTs, price \in OraclePrices, kind \in TickKinds :
          \E ts \in {feed.ts + dt} :
          \E outcome \in {TickOutcome(strategy, ts, Metadata(ts, kind))} :
             /\ strategy' = OnPrice(strategy, ts, price, Metadata(ts, kind))
             /\ feed' = [feed EXCEPT !.ts = ts, !.n = @ + 1,
                                     !.stale_since = IF outcome = "stale" THEN TRUE
                                                     ELSE IF outcome = "accepted" THEN FALSE
                                                     ELSE @]
             /\ last_call' = [NoCall EXCEPT
                                 !.op = "on_price", !.ts = ts, !.price = price,
                                 !.outcome = outcome,
                                 !.watch_expired = outcome = "accepted"
                                                   /\ WatchModeExpired(strategy, ts)]
    /\ UNCHANGED <<quorum, decision, journal>>
    /\ UNCHANGED <<trader, runtime>>

\* the book stream delivers the top of a token's book and on_book runs on it
OnBookUpdate ==
    /\ feed.books < MaxBookUpdates
    /\ \E token_id \in BookTokens, ask \in BookAsks :
          strategy' = OnBook(strategy, token_id, ask)
    /\ feed' = [feed EXCEPT !.books = @ + 1]
    /\ last_call' = [NoCall EXCEPT !.op = "on_book"]
    /\ UNCHANGED <<quorum, decision, journal>>
    /\ UNCHANGED <<trader, runtime>>

\* pick_best is asked for the best candidate at some time among some markets
PickBestCall ==
    /\ \E now_ts \in PickTimes, markets \in MarketLists :
          \E best \in PickBest(strategy, now_ts, markets) :
             last_call' = [NoCall EXCEPT !.op = "pick_best", !.now = now_ts,
                                        !.result = best]
    /\ UNCHANGED <<strategy, feed, quorum, decision, journal>>
    /\ UNCHANGED <<trader, runtime>>

NextStrategy ==
    \/ OnPriceTick
    \/ OnBookUpdate
    \/ PickBestCall

SpecStrategy == InitStrategy /\ [][NextStrategy]_vars

----------------------------------------------------------------------------
(* The quorum monitor under a stream of samples and evaluations *)

MaxAdvances == 3
MaxEvaluations == 4

\* the inputs: tenths of a second between events, the oracle's price and the
\* age of its payload on receipt, the spot prices (at the threshold, 0.5 %
\* under the oracle, and inside it)
AdvanceDelays == {10, 25}
ChainlinkPrices == {50000}
PayloadAges == {0, 30}
SpotPrices == {49750, 49760}

InitQuorum ==
    /\ TraderConstructed(Start(BaseSettings, "none", BeforeHour, AbsentFile))
    /\ EngineConstructed
    /\ RuntimeConstructed

\* time passes
AdvanceClock ==
    /\ journal.advances < MaxAdvances
    /\ \E dt \in AdvanceDelays :
          journal' = [journal EXCEPT !.clock = @ + dt, !.advances = @ + 1]
    /\ decision' = NoDecision
    /\ UNCHANGED <<strategy, feed, last_call, quorum>>
    /\ UNCHANGED <<trader, runtime>>

\* update_chainlink with a sample received now
ChainlinkUpdate ==
    /\ \E price \in ChainlinkPrices, age \in PayloadAges :
          quorum' = UpdateChainlink(quorum, price, journal.clock - age, journal.clock)
    /\ decision' = NoDecision
    /\ UNCHANGED <<strategy, feed, last_call, journal>>
    /\ UNCHANGED <<trader, runtime>>

\* update_spot with a sample of a spot feed received now
SpotUpdate ==
    /\ \E spot_feed \in SpotFeeds, price \in SpotPrices :
          quorum' = UpdateSpot(quorum, spot_feed, price, journal.clock, journal.clock)
    /\ decision' = NoDecision
    /\ UNCHANGED <<strategy, feed, last_call, journal>>
    /\ UNCHANGED <<trader, runtime>>

\* evaluate(now) at the clock's time
EvaluateCall ==
    /\ journal.evaluations < MaxEvaluations
    /\ \E made \in {Evaluate(quorum, journal.clock)} :
          /\ quorum' = made.quorum
          /\ decision' = made.decision
          /\ journal' =
                IF made.decision.spot_quorum_divergence_pct = NoRet
                THEN [journal EXCEPT !.evaluations = @ + 1, !.run = <<>>]
                ELSE IF made.decision.spot_quorum_divergence_pct[1] * 10
                          >= QuorumSettings.divergence_threshold_pct
                               * made.decision.spot_quorum_divergence_pct[2]
                THEN [journal EXCEPT
                         !.evaluations = @ + 1,
                         !.run = Append(@, journal.clock),
                         !.blocked = \E i \in 1..Len(made.decision.reason_codes) :
                                        made.decision.reason_codes[i]
                                            = "SPOT_DIVERGENCE_SUSTAINED",
                         !.calm = 0]
                ELSE [journal EXCEPT
                         !.evaluations = @ + 1,
                         !.run = <<>>,
                         !.calm = IF journal.blocked THEN @ + 1 ELSE 0]
    /\ UNCHANGED <<strategy, feed, last_call>>
    /\ UNCHANGED <<trader, runtime>>

NextQuorum ==
    \/ AdvanceClock
    \/ ChainlinkUpdate
    \/ SpotUpdate
    \/ EvaluateCall

SpecQuorum == InitQuorum /\ [][NextQuorum]_vars

----------------------------------------------------------------------------
(* stream_prices_with_fallback over a primary that delivers and stalls *)

MaxYields == 5

\* the rest of the runtime, which the price stream leaves alone
beside_price_stream == <<book_stream, worker, rtds, clob, recorder, monitor, book_tops,
        submissions>>

InitPriceStream ==
    /\ TraderConstructed(Start(BaseSettings, "none", BeforeHour, AbsentFile))
    /\ EngineConstructed
    /\ \E use_fallback_feed \in BOOLEAN :
          price_stream = PriceStreamStart(use_fallback_feed)
    /\ book_stream = BookStreamStart({})
    /\ worker = RunResilientStart
    /\ rtds = RtdsStart
    /\ clob = StreamBooksStart
    /\ recorder = EventRecorder(10000, FALSE)
    /\ monitor = HeartbeatMonitor(TRUE, 2, TRUE, TRUE)
    /\ book_tops = BookTopsStart
    /\ submissions = NoSubmissions

\* the primary's __anext__ completes with an item
PrimaryDelivers ==
    /\ price_stream.rtds_task = "pending"
    /\ Len(price_stream.yielded) < MaxYields
    /\ price_stream' = [price_stream EXCEPT !.rtds_task = "done"]
    /\ UNCHANGED <<trader, engine, beside_price_stream>>

\* the fallback's __anext__ completes with an item of the running generator
FallbackDelivers ==
    /\ price_stream.fallback_task = "pending"
    /\ price_stream.fallback_iter = "running"
    /\ Len(price_stream.yielded) < MaxYields
    /\ price_stream' = [price_stream EXCEPT !.fallback_task = "item"]
    /\ UNCHANGED <<trader, engine, beside_price_stream>>

\* __anext__ of a generator that has ended raises StopAsyncIteration
FallbackEnded ==
    /\ price_stream.fallback_task = "pending"
    /\ price_stream.fallback_iter = "closed"
    /\ price_stream' = [price_stream EXCEPT !.fallback_task = "stopped"]
    /\ UNCHANGED <<trader, engine, beside_price_stream>>

\* not using the fallback, the primary's task is done: its item is yielded
YieldPrimary ==
    /\ ~price_stream.using_fallback
    /\ price_stream.rtds_task = "done"
    /\ price_stream' = [price_stream EXCEPT !.yielded = Append(@, "oracle"),
                                            !.rtds_task = "pending"]
    /\ UNCHANGED <<trader, engine, beside_price_stream>>

\* not using the fallback, the wait times out after price_staleness_threshold
StalenessDeadline ==
    /\ ~price_stream.using_fallback
    /\ price_stream.rtds_task = "pending"
    /\ price_stream.stalls < MaxYields
    /\ price_stream' =
          IF ~price_stream.use_fallback_feed
          THEN [price_stream EXCEPT !.stalls = @ + 1]
          ELSE [price_stream EXCEPT
                   !.stalls = @ + 1,
                   !.using_fallback = TRUE,
                   !.fallback_task = IF @ = "none" THEN "pending" ELSE @]
    /\ UNCHANGED <<trader, engine, beside_price_stream>>

\* using the fallback without a fallback task: only the primary is awaited
SwitchBackWithoutFallbackTask ==
    /\ price_stream.using_fallback
    /\ price_stream.fallback_task = "none"
    /\ price_stream.rtds_task = "done"
    /\ price_stream' = [price_stream EXCEPT !.using_fallback = FALSE,
                                            !.yielded = Append(@, "oracle"),
                                            !.rtds_task = "pending"]
    /\ UNCHANGED <<trader, engine, beside_price_stream>>

\* using the fallback, the primary's task is done: its item is yielded and a
\* fallback task still pending is cancelled, which ends the fallback's
\* generator at the await it is suspended at
SwitchBack ==
    /\ price_stream.using_fallback
    /\ price_stream.fallback_task # "none"
    /\ price_stream.rtds_task = "done"
    /\ price_stream' = [price_stream EXCEPT
                           !.using_fallback = FALSE,
                           !.yielded = Append(@, "oracle"),
                           !.rtds_task = "pending",
                           !.fallback_iter =
                               IF price_stream.fallback_task = "pending"
                               THEN "closed" ELSE @,
                           !.fallback_task = "none"]
    /\ UNCHANGED <<trader, engine, beside_price_stream>>

\* using the fallback, only the fallback's task is done, with an item
YieldFallback ==
    /\ price_stream.using_fallback
    /\ price_stream.rtds_task = "pending"
    /\ price_stream.fallback_task = "item"
    /\ price_stream' = [price_stream EXCEPT !.yielded = Append(@, "fallback"),
                                            !.fallback_task = "pending"]
    /\ UNCHANGED <<trader, engine, beside_price_stream>>

\* using the fallback, only the fallback's task is done, with StopAsyncIteration
FallbackStopped ==
    /\ price_stream.using_fallback
    /\ price_stream.rtds_task = "pending"
    /\ price_stream.fallback_task = "stopped"
    /\ price_stream' = [price_stream EXCEPT !.fallback_task = "none"]
    /\ UNCHANGED <<trader, engine, beside_price_stream>>

NextPriceStream ==
    \/ PrimaryDelivers
    \/ FallbackDelivers
    \/ FallbackEnded
    \/ YieldPrimary
    \/ StalenessDeadline
    \/ SwitchBackWithoutFallbackTask
    \/ SwitchBack
    \/ YieldFallback
    \/ FallbackStopped

SpecPriceStream == InitPriceStream /\ [][NextPriceStream]_vars

----------------------------------------------------------------------------
(* stream_clob_with_resubscribe over a token set that rolls *)

MaxBookTops == 3
MaxTokenChanges == 3

TokenSets == {{}, {"epoch-1"}, {"epoch-2"}, {"epoch-1", "epoch-2"}}

beside_book_stream == <<price_stream, worker, rtds, clob, recorder, monitor, book_tops,
        submissions>>

InitBookStream ==
    /\ TraderConstructed(Start(BaseSettings, "none", BeforeHour, AbsentFile))
    /\ EngineConstructed
    /\ \E token_ids \in TokenSets : book_stream = BookStreamStart(token_ids)
    /\ price_stream = PriceStreamStart(TRUE)
    /\ worker = RunResilientStart
    /\ rtds = RtdsStart
    /\ clob = StreamBooksStart
    /\ recorder = EventRecorder(10000, FALSE)
    /\ monitor = HeartbeatMonitor(TRUE, 2, TRUE, TRUE)
    /\ book_tops = BookTopsStart
    /\ submissions = NoSubmissions

\* a market refresh replaces the token set
TokenSetRolls ==
    /\ book_stream.changes < MaxTokenChanges
    /\ \E token_ids \in TokenSets \ {book_stream.token_ids} :
          book_stream' = [book_stream EXCEPT !.token_ids = token_ids,
                                             !.changes = @ + 1]
    /\ UNCHANGED <<trader, engine, beside_book_stream>>

\* the stream is started, or its idle sleep ends
SubscribeStep ==
    /\ book_stream.pc \in {"start", "idle_sleep"}
    /\ book_stream' = Subscribe(book_stream)
    /\ UNCHANGED <<trader, engine, beside_book_stream>>

\* the running stream_books call yields a BookTop, which is yielded on
YieldBookTop ==
    /\ book_stream.pc = "streaming"
    /\ book_stream.tops < MaxBookTops
    /\ book_stream' = [book_stream EXCEPT
                          !.pc = "yielded",
                          !.tops = @ + 1,
                          !.last_top = [call |-> Len(book_stream.subscriptions)]]
    /\ UNCHANGED <<trader, engine, beside_book_stream>>

\* the consumer asks for the next item
ResumeAfterYield ==
    /\ book_stream.pc = "yielded"
    /\ book_stream' = AfterYield(book_stream)
    /\ UNCHANGED <<trader, engine, beside_book_stream>>

\* the running stream_books call raises: the stream raises too
StreamBooksRaises ==
    /\ book_stream.pc = "streaming"
    /\ book_stream' = [book_stream EXCEPT !.pc = "raised"]
    /\ UNCHANGED <<trader, engine, beside_book_stream>>

NextBookStream ==
    \/ TokenSetRolls
    \/ SubscribeStep
    \/ YieldBookTop
    \/ ResumeAfterYield
    \/ StreamBooksRaises

SpecBookStream == InitBookStream /\ [][NextBookStream]_vars

----------------------------------------------------------------------------
(* run_resilient over a worker that crashes, completes or is cancelled *)

MaxCrashRun == 8
MaxCompletions == 5

beside_worker == <<price_stream, book_stream, rtds, clob, recorder, monitor, book_tops,
        submissions>>

InitWorker ==
    /\ TraderConstructed(Start(BaseSettings, "none", BeforeHour, AbsentFile))
    /\ EngineConstructed
    /\ RuntimeConstructed

\* the worker raises an Exception: it is logged and the backoff is slept
WorkerCrashes ==
    /\ worker.pc = "running"
    /\ worker.run < MaxCrashRun
    /\ worker' = [worker EXCEPT !.pc = "sleeping", !.slept = worker.backoff,
                                !.run = @ + 1]
    /\ UNCHANGED <<trader, engine, beside_worker>>

\* the sleep ends: the backoff is doubled and the worker is run again
BackoffSleepEnds ==
    /\ worker.pc = "sleeping"
    /\ worker' = [worker EXCEPT !.pc = "running",
                                !.backoff = BackoffAfterCrash(@)]
    /\ UNCHANGED <<trader, engine, beside_worker>>

\* the worker returns: the backoff is reset and the worker is run again
WorkerCompletes ==
    /\ worker.pc = "running"
    /\ worker.completions < MaxCompletions
    /\ worker' = [worker EXCEPT !.backoff = 1, !.run = 0, !.completions = @ + 1]
    /\ UNCHANGED <<trader, engine, beside_worker>>

\* the worker, or the sleep, raises CancelledError: it is raised on
WorkerCancelled ==
    /\ worker.pc \in {"running", "sleeping"}
    /\ worker' = [worker EXCEPT !.pc = "ended", !.raised = "CancelledError"]
    /\ UNCHANGED <<trader, engine, beside_worker>>

NextWorker ==
    \/ WorkerCrashes
    \/ BackoffSleepEnds
    \/ WorkerCompletes
    \/ WorkerCancelled

SpecWorker == InitWorker /\ [][NextWorker]_vars

----------------------------------------------------------------------------
(* RTDSFeed.stream_prices and its heartbeat over connections that fail *)

MaxShortLived == 8
MaxResets == 1
MaxConnections == 9

beside_rtds == <<price_stream, book_stream, worker, clob, recorder, monitor, book_tops,
        submissions>>

InitRtds ==
    /\ TraderConstructed(Start(BaseSettings, "none", BeforeHour, AbsentFile))
    /\ EngineConstructed
    /\ RuntimeConstructed

\* websockets.connect succeeds, the subscription is sent and the heartbeat
\* task is created
RtdsConnects ==
    /\ rtds.pc = "connecting"
    /\ rtds.connections < MaxConnections
    /\ rtds' = [rtds EXCEPT !.pc = "receiving", !.failed_pings = 0,
                            !.stable = FALSE, !.backoff_reset = FALSE,
                            !.hb_task = "running", !.link = "live",
                            !.connections = @ + 1]
    /\ UNCHANGED <<trader, engine, beside_rtds>>

\* websockets.connect or the subscription raises
RtdsConnectFails ==
    /\ rtds.pc = "connecting"
    /\ rtds.run < MaxShortLived
    /\ rtds' = OnConnectionError([rtds EXCEPT !.failed_pings = 0,
                                              !.stable = FALSE,
                                              !.backoff_reset = FALSE])
    /\ UNCHANGED <<trader, engine, beside_rtds>>

\* reconnect_stability_duration has passed since the subscription
RtdsStabilityElapses ==
    /\ rtds.pc = "receiving"
    /\ ~rtds.stable
    /\ rtds.resets < MaxResets
    /\ rtds' = [rtds EXCEPT !.stable = TRUE]
    /\ UNCHANGED <<trader, engine, beside_rtds>>

\* a frame arrives on a live link
RtdsMessage ==
    /\ rtds.pc = "receiving"
    /\ rtds.link = "live"
    /\ \E frame \in RtdsFrames :
          /\ ParseFrame(frame) = "raise" => rtds.run < MaxShortLived
          /\ rtds' = OnFrame(rtds, frame)
    /\ UNCHANGED <<trader, engine, beside_rtds>>

\* the receive loop raises on a live link (the connection is reset or
\* closed with an error, or a frame cannot be handled)
RtdsConnectionFails ==
    /\ rtds.pc = "receiving"
    /\ rtds.link = "live"
    /\ rtds.run < MaxShortLived
    /\ rtds' = OnConnectionError(rtds)
    /\ UNCHANGED <<trader, engine, beside_rtds>>

\* the peer closes the connection normally: the receive loop ends without
\* an exception and the next connection is made at once
RtdsClosedNormally ==
    /\ rtds.pc = "receiving"
    /\ rtds.link = "live"
    /\ rtds' = [rtds EXCEPT !.pc = "connecting", !.link = "none",
                            !.hb_task = IF @ = "running" THEN "cancelled" ELSE @]
    /\ UNCHANGED <<trader, engine, beside_rtds>>

\* the backoff sleep ends
RtdsSleepEnds ==
    /\ rtds.pc = "sleeping"
    /\ rtds' = AfterSleep(rtds)
    /\ UNCHANGED <<trader, engine, beside_rtds>>

\* the peer goes away without a close
RtdsLinkDies ==
    /\ rtds.pc = "receiving"
    /\ rtds.link = "live"
    /\ rtds' = [rtds EXCEPT !.link = "dead"]
    /\ UNCHANGED <<trader, engine, beside_rtds>>

\* _heartbeat: the pong of a ping arrives in time
RtdsPingSucceeds ==
    /\ rtds.pc = "receiving"
    /\ rtds.hb_task = "running"
    /\ rtds.link = "live"
    /\ rtds.failed_pings > 0
    /\ rtds' = [rtds EXCEPT !.failed_pings = 0]
    /\ UNCHANGED <<trader, engine, beside_rtds>>

\* _heartbeat: a ping fails
RtdsPingFails ==
    /\ rtds.pc = "receiving"
    /\ rtds.hb_task = "running"
    /\ rtds' = OnPingFailed(rtds)
    /\ UNCHANGED <<trader, engine, beside_rtds>>

NextRtds ==
    \/ RtdsConnects
    \/ RtdsConnectFails
    \/ RtdsStabilityElapses
    \/ RtdsMessage
    \/ RtdsConnectionFails
    \/ RtdsClosedNormally
    \/ RtdsSleepEnds
    \/ RtdsLinkDies
    \/ RtdsPingSucceeds
    \/ RtdsPingFails

SpecRtds == InitRtds /\ [][NextRtds]_vars

\* every task the event loop can run is run in the end
SpecRtdsFair == SpecRtds /\ WF_vars(NextRtds)

----------------------------------------------------------------------------
(* CLOBWebSocket.stream_books over connections that fail *)

MaxBookMessages == 3
MaxClobFailures == 7

beside_clob == <<price_stream, book_stream, worker, rtds, recorder, monitor, book_tops,
        submissions>>

InitClob ==
    /\ TraderConstructed(Start(BaseSettings, "none", BeforeHour, AbsentFile))
    /\ EngineConstructed
    /\ RuntimeConstructed

\* the connection is made, the subscription sent and both tasks created
ClobConnects ==
    /\ clob.pc = "connecting"
    /\ clob' = [clob EXCEPT !.pc = "receiving", !.failed_pings = 0,
                            !.hb_task = "running", !.stale_task = "running",
                            !.subscribed = @ + 1]
    /\ UNCHANGED <<trader, engine, beside_clob>>

\* websockets.connect raises: the backoff is slept
ClobConnectFails ==
    /\ clob.pc = "connecting"
    /\ clob.failures < MaxClobFailures
    /\ clob' = [clob EXCEPT !.pc = "sleeping", !.failed_pings = 0,
                            !.failures = @ + 1]
    /\ UNCHANGED <<trader, engine, beside_clob>>

\* the sleep ends
ClobSleepEnds ==
    /\ clob.pc = "sleeping"
    /\ clob' = [clob EXCEPT !.pc = "connecting",
                            !.backoff = Min(ClobSettings.reconnect_delay_max, @ * 2)]
    /\ UNCHANGED <<trader, engine, beside_clob>>

\* a frame is received and the BookTops parsed from it are yielded
ClobMessage ==
    /\ clob.pc = "receiving"
    /\ clob.tops < MaxBookMessages
    /\ \E frame \in ClobFrames : clob' = OnBookFrame(clob, frame)
    /\ UNCHANGED <<trader, engine, beside_clob>>

\* the websocket disconnects, or a receive raises
ClobReceiveRaises ==
    /\ clob.pc = "receiving"
    /\ clob' = LeaveReceiveLoop(clob)
    /\ UNCHANGED <<trader, engine, beside_clob>>

\* _heartbeat: a PING is sent
ClobPingSent ==
    /\ clob.pc = "receiving"
    /\ clob.hb_task = "running"
    /\ clob.failed_pings > 0
    /\ clob' = [clob EXCEPT !.failed_pings = 0]
    /\ UNCHANGED <<trader, engine, beside_clob>>

\* _heartbeat: sending a PING raises
ClobPingFails ==
    /\ clob.pc = "receiving"
    /\ clob.hb_task = "running"
    /\ clob' = [clob EXCEPT !.failed_pings = @ + 1,
                            !.hb_task = IF clob.failed_pings + 1 >= 2
                                        THEN "raised" ELSE @]
    /\ UNCHANGED <<trader, engine, beside_clob>>

NextClob ==
    \/ ClobConnects
    \/ ClobConnectFails
    \/ ClobSleepEnds
    \/ ClobMessage
    \/ ClobReceiveRaises
    \/ ClobPingSent
    \/ ClobPingFails

SpecClob == InitClob /\ [][NextClob]_vars

----------------------------------------------------------------------------
(* EventRecorder under record calls and its writer task *)

MaxRecorded == 6

QueueMaxSizes == {0, 2}

beside_recorder == <<price_stream, book_stream, worker, rtds, clob, monitor, book_tops,
        submissions>>

InitRecorder ==
    /\ TraderConstructed(Start(BaseSettings, "none", BeforeHour, AbsentFile))
    /\ EngineConstructed
    /\ \E queue_maxsize \in QueueMaxSizes, enabled \in BOOLEAN :
          recorder = EventRecorder(queue_maxsize, enabled)
    /\ price_stream = PriceStreamStart(TRUE)
    /\ book_stream = BookStreamStart({})
    /\ worker = RunResilientStart
    /\ rtds = RtdsStart
    /\ clob = StreamBooksStart
    /\ monitor = HeartbeatMonitor(TRUE, 2, TRUE, TRUE)
    /\ book_tops = BookTopsStart
    /\ submissions = NoSubmissions

\* record(event_type, **payload)
RecordCall ==
    /\ recorder.recorded < MaxRecorded
    /\ recorder' = Record(recorder, recorder.recorded + 1)
    /\ UNCHANGED <<trader, engine, beside_recorder>>

\* _writer_loop takes the head of the queue and writes it
WriterWrites ==
    /\ recorder.enabled
    /\ Len(recorder.queue) > 0
    /\ recorder' = [recorder EXCEPT !.queue = Tail(@),
                                    !.written = Append(@, Head(recorder.queue)),
                                    !.last = "written"]
    /\ UNCHANGED <<trader, engine, beside_recorder>>

NextRecorder ==
    \/ RecordCall
    \/ WriterWrites

SpecRecorder == InitRecorder /\ [][NextRecorder]_vars

----------------------------------------------------------------------------
(* The heartbeat monitor under a sequence of heartbeat results *)

MaxHeartbeats == 6

FailureThresholds == {0, 2, 3}

beside_monitor == <<price_stream, book_stream, worker, rtds, clob, recorder, book_tops,
        submissions>>

InitMonitor ==
    /\ TraderConstructed(Start(BaseSettings, "none", BeforeHour, AbsentFile))
    /\ EngineConstructed
    /\ \E enabled \in BOOLEAN, max_consecutive_failures \in FailureThresholds,
          cancel_on_failure \in BOOLEAN, has_handler \in BOOLEAN :
          monitor = HeartbeatMonitor(enabled, max_consecutive_failures,
                                     cancel_on_failure, has_handler)
    /\ price_stream = PriceStreamStart(TRUE)
    /\ book_stream = BookStreamStart({})
    /\ worker = RunResilientStart
    /\ rtds = RtdsStart
    /\ clob = StreamBooksStart
    /\ recorder = EventRecorder(10000, FALSE)
    /\ book_tops = BookTopsStart
    /\ submissions = NoSubmissions

\* start(): a disabled monitor gets no task
MonitorStart ==
    /\ ~monitor.running
    /\ monitor' = [monitor EXCEPT !.running = monitor.enabled]
    /\ UNCHANGED <<trader, engine, beside_monitor>>

\* _run: one _tick_once, then the sleep of the interval
HeartbeatTick ==
    /\ monitor.running
    /\ Len(monitor.results) < MaxHeartbeats
    /\ \E heartbeat_ok \in BOOLEAN : monitor' = TickOnce(monitor, heartbeat_ok)
    /\ UNCHANGED <<trader, engine, beside_monitor>>

\* stop() cancels the task during its sleep; the counter and the flag stay
MonitorStop ==
    /\ monitor.running
    /\ monitor' = [monitor EXCEPT !.running = FALSE]
    /\ UNCHANGED <<trader, engine, beside_monitor>>

NextMonitor ==
    \/ MonitorStart
    \/ HeartbeatTick
    \/ MonitorStop

SpecMonitor == InitMonitor /\ [][NextMonitor]_vars

----------------------------------------------------------------------------
(* The book feed's per-token tops under a sequence of book events *)

beside_book_tops == <<price_stream, book_stream, worker, rtds, clob, recorder,
                      monitor,
        submissions>>

InitBookTops ==
    /\ TraderConstructed(Start(BaseSettings, "none", BeforeHour, AbsentFile))
    /\ EngineConstructed
    /\ RuntimeConstructed

\* a message of one event is parsed
ParseBookEvent ==
    /\ \E event \in BookEvents : book_tops' = ParseEvent(book_tops, event)
    /\ UNCHANGED <<trader, engine, beside_book_tops>>

NextBookTops == ParseBookEvent

SpecBookTops == InitBookTops /\ [][NextBookTops]_vars

----------------------------------------------------------------------------
(* The strategy's rolling window under bursts of ticks *)

MaxWindowTicks == 3

\* seconds between ticks: the same second, the next one, and a gap that
\* empties the window
WindowDeltas == {0, 1, 61}

WindowPrices == {0, 2000, 2020}

FreshTick == [source |-> "chainlink_rtds", age |-> 0, wall_lag |-> 0]

\* the strategy after n fresh ticks of one second at the given price
RECURSIVE Burst(_, _, _, _)
Burst(sm, ts, n, price) ==
    IF n = 0 THEN sm
    ELSE LET after == OnPrice(sm, ts, price, Metadata(ts, FreshTick))
         IN IF after.last_price = price THEN Burst(after, ts, n - 1, price)
            ELSE sm

\* a strategy just constructed, and one whose price deque a burst has
\* filled to one below its capacity
InitWindow ==
    /\ TraderConstructed(Start(BaseSettings, "none", BeforeHour, AbsentFile))
    /\ \/ strategy = StrategyStateMachine(StrategySettings)
       \/ \E capacity \in {Max(120, 2 * StrategySettings.watch_rolling_window_seconds)} :
             strategy = Burst(Burst(StrategyStateMachine(StrategySettings),
                                    Boundary - 300, capacity \div 2, 2000),
                              Boundary - 300, capacity - 1 - capacity \div 2, 2000)
    /\ feed = [ts |-> Boundary - 300, n |-> 0, books |-> 0, stale_since |-> FALSE]
    /\ last_call = NoCall
    /\ quorum = QuorumHealth(QuorumSettings)
    /\ decision = NoDecision
    /\ journal = JournalStart
    /\ RuntimeConstructed

\* a fresh oracle tick arrives and on_price runs on it
WindowTick ==
    /\ feed.n < MaxWindowTicks
    /\ \E dt \in WindowDeltas, price \in WindowPrices :
          \E ts \in {feed.ts + dt} :
             /\ strategy' = OnPrice(strategy, ts, price, Metadata(ts, FreshTick))
             /\ feed' = [feed EXCEPT !.ts = ts, !.n = @ + 1]
             /\ last_call' = [NoCall EXCEPT !.op = "on_price", !.ts = ts,
                                           !.price = price, !.outcome = "accepted"]
    /\ UNCHANGED <<quorum, decision, journal>>
    /\ UNCHANGED <<trader, runtime>>

NextWindow == WindowTick

SpecWindow == InitWindow /\ [][NextWindow]_vars

----------------------------------------------------------------------------
(* The risk ledger over idle days *)

\* a dry-run trader started without a file or on the file of this hour
InitDays ==
    /\ \E f \in {AbsentFile, EarlierThisHourFile} :
          TraderConstructed(Start(BaseSettings, "none", BeforeHour, f))
    /\ EngineConstructed
    /\ RuntimeConstructed

\* a day passes in which the handler finds no candidate: buy_fok and with
\* it _check_risk are not called
DayPasses ==
    /\ pc = "idle"
    /\ ticks < MaxTicks
    /\ now' = now + SecondsPerDay
    /\ ticks' = ticks + 1
    /\ obs' = Observed("tick", now', TRUE, 0, NoKey)
    /\ UNCHANGED <<engine, runtime>>
    /\ UNCHANGED <<settings, risk, cached_equity_usd, last_equity_refresh_ts, client,
                   token_constraints_by_id, file, pc, order, hist>>

NextDays ==
    \/ Tick
    \/ DayPasses
    \/ BuyFokCheck
    \/ DryRunFill

SpecDays == InitDays /\ [][NextDays]_vars

(* Live orders whose submission outlives order_submit_timeout_seconds *)

MaxSubmissions == 1

beside_submissions == <<price_stream, book_stream, worker, rtds, clob, recorder,
                        monitor, book_tops>>

\* a live trader with a ready client, started without a file
InitSubmit ==
    /\ TraderConstructed(Start(LiveSettings(2, 0), "ready", BeforeHour, AbsentFile))
    /\ EngineConstructed
    /\ RuntimeConstructed

\* the timeout passes while the thread is still in post_order: wait_for
\* raises TimeoutError, buy_fok logs and returns false, the thread runs on
LiveSubmitTimeout ==
    /\ pc = "checked"
    /\ ~settings.dry_run
    /\ client = "ready"
    /\ order.waited
    /\ Len(submissions.running) + Len(submissions.filled) < MaxSubmissions
    /\ submissions' = [submissions EXCEPT !.running =
           Append(@, [key |-> order.key, notional |-> order.notional,
                      ts |-> order.ts])]
    /\ pc' = "idle"
    /\ order' = NoOrder
    /\ risk' = FailedOrder(risk)
    /\ obs' = Observed("submit_timeout", now, FALSE, 0, NoKey)
    /\ UNCHANGED <<engine, beside_submissions>>
    /\ UNCHANGED <<settings, now, ticks, cached_equity_usd, last_equity_refresh_ts,
                   client, token_constraints_by_id, file, hist>>

\* a thread left running comes back from post_order; the venue filled the
\* order or did not.  The future wait_for cancelled drops the response
SubmissionThreadReturns ==
    /\ submissions.running # <<>>
    /\ \E venue_filled \in BOOLEAN :
          submissions' =
              [submissions EXCEPT
                  !.running = Tail(@),
                  !.filled = IF venue_filled
                             THEN Append(@, Head(submissions.running))
                             ELSE @]
    /\ UNCHANGED <<trader, engine, beside_submissions>>

\* the thread comes back within the timeout with a complete fill, and the
\* venue does not list positions
SubmitFilledInTime ==
    /\ pc = "checked"
    /\ ~settings.dry_run
    /\ client = "ready"
    /\ PostTrade([realized_pnl |-> 60 * USD, filled_notional |-> order.notional,
                  complete_fill_details |-> TRUE],
                 [listed |-> FALSE, positions |-> {}], 1000 * USD)

NextSubmit ==
    \/ Tick
    \/ BuyFokCheck
    \/ SubmitFilledInTime
    \/ LiveSubmitTimeout
    \/ SubmissionThreadReturns

SpecSubmit == InitSubmit /\ [][NextSubmit]_vars

----------------------------------------------------------------------------

(* Exposure of accepted orders over the end of their markets *)

\* the end of the market an order was placed on: the market of its horizon
\* that is running when buy_fok is called
OrderMarketEnd(o) ==
    LET span == ParseHorizonMinutes(o.horizon) * SecondsPerMinute
    IN (o.ts \div span) * span + span

\* a dry-run trader started without a file
InitRelease ==
    /\ TraderConstructed(Start(BaseSettings, "none", BeforeHour, AbsentFile))
    /\ EngineConstructed
    /\ RuntimeConstructed

\* the dry-run fill of buy_fok; the order is noted with its market's end
DryRunFillAccepted ==
    /\ pc = "checked"
    /\ settings.dry_run
    /\ PostTradeLedger([realized_pnl |-> 0, filled_notional |-> order.px * order.size,
                        complete_fill_details |-> TRUE],
                       [listed |-> FALSE, positions |-> {}], 0)
    /\ submissions' = [submissions EXCEPT !.accepted =
           Append(@, [key |-> order.key, notional |-> order.px * order.size,
                      end |-> OrderMarketEnd(order)])]
    /\ UNCHANGED <<engine, beside_submissions>>

NextRelease ==
    \/ Tick
    \/ BuyFokCheck
    \/ DryRunFillAccepted

SpecRelease == InitRelease /\ [][NextRelease]_vars

----------------------------------------------------------------------------

(* The trader constructed on state files it did not write itself *)

\* a file whose total does not match its map: 25 USD for one entry of 10 USD
\* on the market that is running
StaleTotalFile ==
    JsonFile([open_exposure_usd_by_market |->
                  (MarketExposureKey("t1", "5", "BUY", BtcSlug(5, BeforeHour),
                                     BeforeHour) :> JFloat(10 * USD)),
              total_open_notional_usd |-> JFloat(25 * USD)])

StateFiles ==
    {AbsentFile, EarlierThisHourFile, LegacyKeysFile, NestedLayoutFile, StaleTotalFile}

InitLoad ==
    /\ \E f \in StateFiles :
          TraderConstructed(Start(BaseSettings, "none", BeforeHour, f))
    /\ EngineConstructed
    /\ RuntimeConstructed

NextLoad ==
    \/ Restart
    \/ Tick
    \/ BuyFokCheck
    \/ DryRunFill

SpecLoad == InitLoad /\ [][NextLoad]_vars

----------------------------------------------------------------------------

----------------------------------------------------------------------------
(* Properties of the risk ledger *)

ExposureMap == risk.open_exposure_usd_by_market

LedgerOps == {"construct", "check_risk", "post_trade"}

DailyPnlResetOnRollover ==
    obs.op \in LedgerOps =>
        /\ risk.last_pnl_reset_date_utc = TodayUtc(now)
        /\ risk.daily_realized_pnl =
               IF hist.pnl.day = TodayUtc(now) THEN hist.pnl.amount ELSE 0
        /\ (obs.op = "check_risk" /\ hist.pnl.day # TodayUtc(now))
              => risk.daily_realized_pnl > -Abs(settings.max_daily_loss_usd)

\* a loss was realized by this process, the date rolled over, and the first
\* _check_risk of the new date has run
DailyPnlResetOnRolloverWitness ==
    /\ obs.op = "check_risk"
    /\ ticks > 0
    /\ hist.pnl.day = TodayUtc(now) - 1
    /\ hist.pnl.amount < 0
    /\ hist.orders > 0
    /\ risk.daily_realized_pnl = 0

\* the drawdown from peak the last post-trade update saw, against pct percent
ObservedDrawdownAtLeast(pct) ==
    (risk.peak_equity_usd - cached_equity_usd) * 100 >= pct * risk.peak_equity_usd

\* C5 (as the code has it: a threshold of 0 switches its trigger off): with
\* cooldown_minutes > 0, a post-trade update that sees the loss streak at a
\* positive cooldown_consecutive_losses, or the drawdown at a positive
\* cooldown_drawdown_pct, leaves cooldown_until_ts at least cooldown_minutes
\* ahead; and _check_risk before cooldown_until_ts answers false
CooldownStartsAndBlocks ==
    /\ (/\ obs.op = "post_trade"
        /\ settings.cooldown_minutes > 0
        /\ \/ /\ settings.cooldown_consecutive_losses > 0
              /\ risk.consecutive_losses >= settings.cooldown_consecutive_losses
           \/ /\ settings.cooldown_drawdown_pct > 0
              /\ ObservedDrawdownAtLeast(settings.cooldown_drawdown_pct))
       => risk.cooldown_until_ts >= now + settings.cooldown_minutes * 60
    /\ (obs.op = "check_risk" /\ now < risk.cooldown_until_ts) => ~obs.allowed

\* a cooldown started at an earlier time still refuses an order
CooldownStartsAndBlocksWitness ==
    /\ obs.op = "check_risk"
    /\ ~obs.allowed
    /\ now < risk.cooldown_until_ts
    /\ risk.cooldown_until_ts < now + settings.cooldown_minutes * 60
    /\ risk.daily_realized_pnl > -Abs(settings.max_daily_loss_usd)
    /\ risk.trades_this_hour < settings.max_trades_per_hour

\* C5 as stated: the triggers are the bare comparisons with the thresholds
CooldownStartsOnBareThresholds ==
    /\ (/\ obs.op = "post_trade"
        /\ settings.cooldown_minutes > 0
        /\ \/ risk.consecutive_losses >= settings.cooldown_consecutive_losses
           \/ ObservedDrawdownAtLeast(settings.cooldown_drawdown_pct))
       => risk.cooldown_until_ts >= now + settings.cooldown_minutes * 60
    /\ (obs.op = "check_risk" /\ now < risk.cooldown_until_ts) => ~obs.allowed

\* C6: in live mode, while the last equity refresh obtained no positive
\* balance from the venue, _check_risk answers false
RefreshFailureFailsClosed ==
    (~settings.dry_run /\ obs.op = "check_risk" /\ hist.refresh_failed)
        => ~obs.allowed

EffectiveCap(usd, pct) == Min(Abs(usd), (pct * cached_equity_usd) \div 100)

\* C7: the daily-loss, per-market and total caps of the risk check are each
\* the smaller of the absolute USD value and the percentage of current equity
EffectiveCapsAreMinOfUsdAndPct ==
    (/\ obs.op = "check_risk"
     /\ \/ risk.daily_realized_pnl
              <= -EffectiveCap(settings.max_daily_loss_usd, settings.max_daily_loss_pct)
        \/ ExposureOf(risk, obs.key) + obs.notional
              > EffectiveCap(settings.max_open_exposure_per_market_usd,
                             settings.max_open_exposure_per_market_pct)
        \/ risk.total_open_notional_usd + obs.notional
              > EffectiveCap(settings.max_total_open_exposure_usd,
                             settings.max_total_open_exposure_pct))
        => ~obs.allowed

\* C8: at every instant the file holds a complete persisted state (or does
\* not exist yet), never a partial or an empty one
FileAlwaysComplete == file.kind \in {"absent", "json"}

\* C9: persisting a reachable state, loading it and persisting again gives
\* the same file; a loaded map has no 3-field key left, and another
\* load/persist changes nothing further
PersistLoadPersistStable ==
    obs.op \in LedgerOps =>
        /\ Dump(LoadRiskState(JsonFile(Dump(risk)))) = Dump(risk)
        /\ \A k \in DOMAIN LoadRiskState(file).open_exposure_usd_by_market :
              KeyParts(k) >= 4
        /\ Dump(LoadRiskState(JsonFile(Dump(LoadRiskState(file)))))
               = Dump(LoadRiskState(file))

----------------------------------------------------------------------------
(* Properties of the strategy state machine *)

\* the last call was pick_best and it returned a candidate
Picked == last_call.op = "pick_best" /\ last_call.result # NoCandidate

\* the sides of the given markets that pass every filter of pick_best at
\* now_ts, stated on the strategy's fields
Eligible(now_ts, markets) ==
    {side \in UNION {{<<m, m.up_token_id>>, <<m, m.down_token_id>>} : m \in markets} :
        /\ 0 <= side[1].end_epoch - now_ts
        /\ side[1].end_epoch - now_ts <= StrategySettings.hammer_secs
        /\ strategy.books[side[2]].ask > 0
        /\ strategy.books[side[2]].ask <= StrategySettings.max_entry_price
        /\ strategy.last_price # NoPrice
        /\ side[1].horizon_minutes * 60 \in DOMAIN strategy.start_prices
        /\ Abs(strategy.last_price - strategy.start_prices[side[1].horizon_minutes * 60])
              > StrategySettings.d_min
        /\ Len(strategy.prices_1s) >= 61
        /\ strategy.sigma1_stats.count > 0}

\* C11: a candidate that pick_best(now, markets) returns belongs to one of
\* the markets with 0 <= end_epoch - now <= hammer_secs, its ask is at most
\* max_entry_price, the last price is more than d_min away from the anchor
\* of its horizon and sigma_T is positive; a market is inside the window at
\* end_epoch - now = 0 (a side of it that passes the filters is returned)
\* and outside at end_epoch - now = -1.
PickBestCandidateConstraints ==
    last_call.op = "pick_best" =>
        /\ Picked =>
              /\ <<last_call.result.market, last_call.result.token_id>>
                    \in Eligible(last_call.now, {Market5, Market15})
              /\ last_call.result.ask = strategy.books[last_call.result.token_id].ask
              /\ last_call.result.market.end_epoch - last_call.now # -1
        /\ (~strategy.price_is_stale /\ Eligible(last_call.now, {Market5, Market15}) # {})
              => Picked

\* a candidate is returned for a market that ends at the very second asked
PickBestCandidateConstraintsWitness ==
    /\ Picked
    /\ last_call.result.market.end_epoch - last_call.now = 0

\* C13: from a tick that on_price flags stale until the next tick it
\* accepts, pick_best returns no candidate, whatever the books, the markets
\* and the other events in between.
StaleBlocksPickBest ==
    (last_call.op = "pick_best" /\ feed.stale_since) => last_call.result = NoCandidate

\* pick_best is asked while the price is stale and a side passes every filter
StaleBlocksPickBestWitness ==
    /\ last_call.op = "pick_best"
    /\ feed.stale_since
    /\ Eligible(last_call.now, {Market5, Market15}) # {}

\* the step is an on_price call with the given outcome
OnPriceStep(outcome) ==
    /\ feed'.n # feed.n
    /\ last_call'.op = "on_price"
    /\ last_call'.outcome = outcome

\* C14: an on_price call whose tick is flagged stale never takes watch_mode
\* from false to true.
StaleTickNeverEntersWatchMode ==
    [][OnPriceStep("stale") => ~(~strategy.watch_mode /\ strategy'.watch_mode)]_vars

\* a stale tick has arrived whose price is beyond the return threshold of the
\* window, and the strategy is not in watch mode
StaleTickNeverEntersWatchModeWitness ==
    /\ last_call.op = "on_price"
    /\ last_call.outcome = "stale"
    /\ ~strategy.watch_mode
    /\ Len(strategy.prices_1s) >= 2
    /\ Abs(last_call.price - strategy.prices_1s[1].price) * 1000
          >= StrategySettings.watch_return_threshold * strategy.prices_1s[1].price

\* C15: an accepted tick at or after watch_mode_started_at +
\* watch_mode_expiry_seconds leaves watch_mode false, watch_mode_started_at
\* None, the price window holding that tick alone and the rolling-return and
\* sigma statistics empty.
WatchModeExpiryResets ==
    [][(/\ OnPriceStep("accepted")
        /\ strategy.watch_mode
        /\ strategy.watch_mode_started_at # NoEpoch
        /\ last_call'.ts - strategy.watch_mode_started_at
              >= StrategySettings.watch_mode_expiry_seconds)
       => /\ ~strategy'.watch_mode
          /\ strategy'.watch_mode_started_at = NoEpoch
          /\ strategy'.prices_1s = <<[sec |-> last_call'.ts, price |-> last_call'.price]>>
          /\ strategy'.rolling_returns = <<>>
          /\ strategy'.rolling_return_stats.count = 0
          /\ strategy'.sigma1_window_returns = <<>>
          /\ strategy'.sigma1_stats.count = 0]_vars

\* watch mode has just expired on a tick whose price is beyond the return
\* threshold of the price that opened the window
WatchModeExpiryResetsWitness ==
    /\ last_call.op = "on_price"
    /\ last_call.watch_expired
    /\ Abs(last_call.price - 2000) * 1000
          >= StrategySettings.watch_return_threshold * 2000

\* the anchor of the bucket of the given seconds, if any, and the bucket index
Anchor(sm, seconds) ==
    <<IF seconds \in DOMAIN sm.start_prices THEN sm.start_prices[seconds] ELSE NoPrice,
      IF seconds = 300 THEN sm.last_5m_bucket ELSE sm.last_15m_bucket>>

AnchorMovesOnlyOnNewBucket(seconds) ==
    IF OnPriceStep("accepted") /\ (last_call'.ts \div seconds) # Anchor(strategy, seconds)[2]
    THEN Anchor(strategy', seconds) = <<last_call'.price, last_call'.ts \div seconds>>
    ELSE Anchor(strategy', seconds) = Anchor(strategy, seconds)

\* C16: start_prices[300] (resp. [900]) is overwritten with a tick's price
\* exactly when on_price accepts the tick and its index int(ts) // 300 (resp.
\* // 900) differs from the last recorded bucket index, a tick on the
\* boundary included; every other call leaves the anchor as it was.
AnchorsFollowBuckets ==
    [][AnchorMovesOnlyOnNewBucket(300) /\ AnchorMovesOnlyOnNewBucket(900)]_vars

\* a tick exactly on the boundary has replaced both anchors by its price
AnchorsFollowBucketsWitness ==
    /\ last_call.op = "on_price"
    /\ last_call.outcome = "accepted"
    /\ last_call.ts = Boundary
    /\ feed.n >= 2
    /\ last_call.price # 2000
    /\ strategy.start_prices = [k \in {300, 900} |-> last_call.price]

----------------------------------------------------------------------------
(* Properties of the quorum monitor *)

\* evaluate has just returned the decision, at the clock's time
Evaluated == decision # NoDecision

HasReason(code) ==
    \E i \in 1..Len(decision.reason_codes) : decision.reason_codes[i] = code

\* C17: evaluate returns trading_allowed exactly when its reason codes are
\* empty, and they are empty exactly when there is an oracle sample, its
\* lag is at most chainlink_max_lag_seconds, at least min_spot_sources spot
\* samples have a lag of at most spot_max_lag_seconds, and no sustained
\* divergence is reported.
TradingAllowedIffNoReasons ==
    Evaluated =>
        /\ decision.trading_allowed <=> decision.reason_codes = <<>>
        /\ decision.reason_codes = <<>> <=>
              /\ quorum.chainlink_sample # NoSample
              /\ journal.clock - quorum.chainlink_sample.payload_ts
                    <= QuorumSettings.chainlink_max_lag_seconds
              /\ Cardinality({f \in DOMAIN quorum.spot_samples :
                                 journal.clock - quorum.spot_samples[f].payload_ts
                                     <= QuorumSettings.spot_max_lag_seconds})
                    >= QuorumSettings.spot_quorum_min_sources
              /\ ~HasReason("SPOT_DIVERGENCE_SUSTAINED")

\* trading is allowed with the oracle sample at the very limit of its lag
TradingAllowedIffNoReasonsWitness ==
    /\ Evaluated
    /\ decision.trading_allowed
    /\ journal.clock - quorum.chainlink_sample.payload_ts
          = QuorumSettings.chainlink_max_lag_seconds

BlockedUntilRecoveryPeriod ==
    (Evaluated /\ journal.blocked /\ journal.calm = 1) =>
        (~decision.trading_allowed /\ HasReason("SPOT_DIVERGENCE_SUSTAINED"))

----------------------------------------------------------------------------
(* Properties of the supervisor's streams *)

\* C21: with use_fallback_feed, in every stall of the primary (the first
\* and every later one) the output is switched to a fallback stream that
\* is running and has a task to deliver its items
BlockedOnFallback ==
    /\ price_stream.use_fallback_feed
    /\ price_stream.using_fallback
    /\ price_stream.rtds_task = "pending"

FallbackServesEveryStall ==
    BlockedOnFallback => price_stream.fallback_iter = "running"

\* C22: stream_books is called once per token set get_token_ids returned
\* (an empty set is slept on), in the order they were returned, and a
\* BookTop just yielded is of the call made with the set last returned: no
\* BookTop of a subscription is yielded once the set was seen to differ
ResubscribeFollowsTokenSet ==
    /\ book_stream.subscriptions
          = SelectSeq(book_stream.observed, LAMBDA token_ids : token_ids # {})
    /\ book_stream.pc = "yielded" =>
          /\ book_stream.last_top.call = Len(book_stream.subscriptions)
          /\ book_stream.subscriptions[book_stream.last_top.call]
                = book_stream.observed[Len(book_stream.observed)]

ResubscribeFollowsTokenSetWitness ==
    /\ book_stream.pc = "yielded"
    /\ Len(book_stream.subscriptions) = 2
    /\ book_stream.subscriptions[1] # book_stream.subscriptions[2]
    /\ book_stream.tops = 2

\* C22 as stated: stream_books is called once per token set get_token_ids
\* returned, the empty set included
SubscribedOncePerObservedSet ==
    book_stream.subscriptions = book_stream.observed

----------------------------------------------------------------------------
(* Properties of the supervisor's workers *)

\* C23: run_resilient raises nothing but a cancellation; the delay slept
\* after the n-th consecutive crash is min(60, 2^(n-1)) seconds, and the
\* backoff is 1 when no crash has happened since the start or since the
\* worker last completed
RunResilientBackoff ==
    /\ worker.raised \in {"none", "CancelledError"}
    /\ (worker.pc = "ended") = (worker.raised = "CancelledError")
    /\ worker.pc = "sleeping" => worker.slept = Min(60, 2 ^ (worker.run - 1))
    /\ worker.run = 0 /\ worker.pc = "running" => worker.backoff = 1

RunResilientBackoffWitness ==
    /\ worker.pc = "sleeping"
    /\ worker.run = 8
    /\ worker.slept = 60
    /\ worker.completions = 1

----------------------------------------------------------------------------
(* Properties of the feeds *)

\* C24: the reconnect delay is reset only on a connection that has been up
\* for reconnect_stability_duration since its subscription, and the n-th
\* delay slept since the start or the last reset is
\* min(reconnect_delay_max, reconnect_delay_min * 2^(n-1))
BackoffResetsOnlyWhenStable ==
    /\ rtds.backoff_reset => rtds.stable
    /\ rtds.pc = "sleeping" =>
          rtds.slept = Min(RtdsSettings.reconnect_delay_max,
                           RtdsSettings.reconnect_delay_min * 2 ^ (rtds.run - 1))

BackoffResetsOnlyWhenStableWitness ==
    /\ rtds.pc = "sleeping"
    /\ rtds.resets = 1
    /\ rtds.run = 2
    /\ rtds.slept = 2

\* C25: once two consecutive pings have failed on a link on which no frame
\* arrives any more, the receive loop leaves the connection
HeartbeatFailureReconnects ==
    (rtds.hb_task = "raised" /\ rtds.link = "dead") ~> (rtds.pc # "receiving")

\* C26: stream_books surfaces no exception or cancellation to its consumer
\* when the websocket disconnects or a receive raises
StreamBooksSurfacesNothing ==
    clob.surfaced = "none"

----------------------------------------------------------------------------
(* Properties of the recorder *)

RecordStep == recorder'.recorded = recorder.recorded + 1

\* what the claim says of a record call
RecordKeepsQueuedEvents ==
    IF Len(recorder.queue) >= recorder.maxsize
    THEN /\ recorder'.queue = recorder.queue
         /\ recorder'.dropped_events = recorder.dropped_events + 1
    ELSE /\ recorder'.queue = Append(recorder.queue, recorder'.recorded)
         /\ recorder'.dropped_events = recorder.dropped_events

\* C27: on an enabled recorder, record on a full queue discards the
\* incoming event, counts it and leaves the queue as it is, and record on a
\* queue that is not full appends the event at the tail; a disabled
\* recorder ignores the call
RecordNeverEvicts ==
    [][RecordStep =>
          IF recorder.enabled THEN RecordKeepsQueuedEvents
          ELSE /\ recorder'.queue = recorder.queue
               /\ recorder'.dropped_events = recorder.dropped_events]_vars

RecordNeverEvictsWitness ==
    /\ recorder.enabled
    /\ recorder.last = "dropped"
    /\ recorder.dropped_events = 2
    /\ recorder.queue = <<2, 3>>
    /\ recorder.written = <<1>>

\* C27 as stated: of every recorder
RecordAppendsWhenNotFull ==
    [][RecordStep => RecordKeepsQueuedEvents]_vars

----------------------------------------------------------------------------
(* Properties of failed live orders *)

\* the fields of the ledger the claim names
LedgerOf(r) ==
    [trades_this_hour |-> r.trades_this_hour,
     open_exposure_usd_by_market |-> r.open_exposure_usd_by_market,
     total_open_notional_usd |-> r.total_open_notional_usd,
     daily_realized_pnl |-> r.daily_realized_pnl,
     cumulative_realized_pnl |-> r.cumulative_realized_pnl]

\* buy_fok returns false for a missing client or a failed submission
FailedLiveOrder ==
    /\ pc = "checked"
    /\ obs'.op \in {"no_client", "submit_failed"}

\* C29 (as the code has it): in live mode a missing client, missing live
\* authentication or a failed submission makes buy_fok return false and
\* leaves the ledger as the risk check of the call left it; against the
\* ledger before the call only the risk check's housekeeping shows: the
\* hourly count and the daily PnL are kept or reset to 0, and exposure is
\* kept or released, never added
FailedOrderLeavesLedger ==
    [][FailedLiveOrder =>
          /\ ~obs'.allowed
          /\ pc' = "idle"
          /\ LedgerOf(risk') = LedgerOf(risk)
          /\ risk'.trades_this_hour \in {order.before.trades_this_hour, 0}
          /\ risk'.daily_realized_pnl \in {order.before.daily_realized_pnl, 0}
          /\ risk'.cumulative_realized_pnl = order.before.cumulative_realized_pnl
          /\ \A k \in DOMAIN risk'.open_exposure_usd_by_market :
                /\ k \in DOMAIN order.before.open_exposure_usd_by_market
                /\ risk'.open_exposure_usd_by_market[k]
                      = order.before.open_exposure_usd_by_market[k]]_vars

\* a submission has failed on a ledger that holds a trade and its exposure
FailedOrderLeavesLedgerWitness ==
    /\ obs.op = "submit_failed"
    /\ pc = "idle"
    /\ risk.trades_this_hour > 0
    /\ risk.total_open_notional_usd > 0

\* C29 as stated: the ledger is as it was before the call
FailedOrderLedgerAsBeforeCall ==
    [][FailedLiveOrder => LedgerOf(risk') = LedgerOf(order.before)]_vars

----------------------------------------------------------------------------
(* Properties of the heartbeat monitor *)

\* the number of consecutive failed heartbeats that end at tick i
FailureRun(results, i) ==
    Cardinality({k \in 1..i : \A j \in k..i : ~results[j]})

\* C30 (as the code has it): a monitor built with cancel_on_failure and a
\* handler invokes the handler at exactly the ticks where the run of
\* consecutive failed heartbeats reaches max_consecutive_failures (at least
\* 1): once per run, not again later in the run, and again in a later run
\* after a success has reset the count to 0; any other monitor invokes
\* nothing
HandlerOncePerFailureRun ==
    /\ monitor.consecutive_failures
          = FailureRun(monitor.results, Len(monitor.results))
    /\ \A i \in 1..Len(monitor.results) :
          monitor.invoked[i] <=>
             /\ monitor.cancel_on_failure
             /\ monitor.has_handler
             /\ FailureRun(monitor.results, i) = monitor.max_consecutive_failures

\* two runs have reached the threshold, one of them went on past it, and
\* the handler was invoked twice
HandlerOncePerFailureRunWitness ==
    /\ Cardinality({i \in 1..Len(monitor.invoked) : monitor.invoked[i]}) = 2
    /\ \E i \in 1..Len(monitor.results) :
          FailureRun(monitor.results, i) > monitor.max_consecutive_failures

\* C30 as stated: whatever the monitor was built with
HandlerInvokedByEveryMonitor ==
    \A i \in 1..Len(monitor.results) :
       monitor.invoked[i] <=>
          FailureRun(monitor.results, i) = monitor.max_consecutive_failures

----------------------------------------------------------------------------
(* Properties of the feeds' parsing *)

\* a malformed frame arrives on the oracle feed's connection
RtdsMalformedFrame ==
    /\ rtds.pc = "receiving"
    /\ rtds.link = "live"
    /\ \E frame \in RtdsFrames \ {"tick"} : rtds' = OnFrame(rtds, frame)

\* C32: a malformed frame is dropped by the oracle feed without ending the
\* connection and without a reconnect: the feed goes on receiving on the
\* same connection
MalformedFrameKeepsConnection ==
    [][RtdsMalformedFrame =>
          /\ rtds'.pc = "receiving"
          /\ rtds'.link = "live"
          /\ rtds'.hb_task = rtds.hb_task]_vars

\* a malformed frame arrives on the book feed's connection
ClobMalformedFrame ==
    /\ clob.pc = "receiving"
    /\ \E frame \in ClobFrames \ {"book"} : clob' = OnBookFrame(clob, frame)

\* the same for the book feed
MalformedBookFrameKeepsConnection ==
    [][ClobMalformedFrame =>
          /\ clob'.pc = "receiving"
          /\ clob'.surfaced = "none"]_vars

----------------------------------------------------------------------------
(* Properties of the book tops *)

\* the event mentions the bid side only / the ask side only
MentionsOnlyBid(event) ==
    /\ event.bid # NoPrice \/ event.bid_size # NoPrice
    /\ event.ask = NoPrice /\ event.ask_size = NoPrice

MentionsOnlyAsk(event) ==
    /\ event.ask # NoPrice \/ event.ask_size # NoPrice
    /\ event.bid = NoPrice /\ event.bid_size = NoPrice

\* C33: an update that mentions only one side leaves the other side's best
\* price and size of the token's book top as they were, and the BookTop it
\* yields carries them
OneSidedUpdateKeepsOtherSide ==
    [][LET event == book_tops'.event
           prev == book_tops.tops[event.token_id]
           top == book_tops'.tops[event.token_id]
       IN /\ MentionsOnlyBid(event) =>
                /\ top.best_ask = prev.best_ask
                /\ top.best_ask_size = prev.best_ask_size
                /\ \A i \in 1..Len(book_tops'.yielded) :
                      /\ book_tops'.yielded[i].best_ask = prev.best_ask
                      /\ book_tops'.yielded[i].best_ask_size = prev.best_ask_size
          /\ MentionsOnlyAsk(event) =>
                /\ top.best_bid = prev.best_bid
                /\ top.best_bid_size = prev.best_bid_size
                /\ \A i \in 1..Len(book_tops'.yielded) :
                      /\ book_tops'.yielded[i].best_bid = prev.best_bid
                      /\ book_tops'.yielded[i].best_bid_size = prev.best_bid_size
      ]_vars

\* a legacy update of the bid alone, on a token that had no bid, has
\* yielded a top that carries the ask of an earlier event
OneSidedUpdateKeepsOtherSideWitness ==
    /\ book_tops.event.schema = "legacy"
    /\ MentionsOnlyBid(book_tops.event)
    /\ Len(book_tops.yielded) = 1
    /\ book_tops.yielded[1].best_bid = 450
    /\ book_tops.yielded[1].best_bid_size = NoPrice
    /\ book_tops.yielded[1].best_ask = 450
    /\ book_tops.yielded[1].best_ask_size = 50

----------------------------------------------------------------------------
(* Properties of the rolling window *)

\* the consecutive returns of the prices a deque holds
ReturnsOf(prices) ==
    [i \in 1..(Len(prices) - 1) |->
        IF prices[i].price > 0 THEN <<prices[i].price, prices[i + 1].price>>
        ELSE NoRet]

\* C34: after every accepted on_price call rolling_returns is the list of
\* consecutive returns of the prices held in prices_1s, and the rolling
\* statistics count the returns of that list
RollingReturnsMatchWindow ==
    /\ strategy.rolling_returns = ReturnsOf(strategy.prices_1s)
    /\ strategy.rolling_return_stats.count
          = Cardinality({i \in 1..(Len(strategy.prices_1s) - 1) :
                            strategy.prices_1s[i].price > 0})

----------------------------------------------------------------------------
(* Properties of the hourly counter *)

\* C35: a _check_risk call made in another clock hour (date and hour) than
\* the one in which trades_this_hour was last counted resets
\* trades_this_hour to 0 before the hourly limit is evaluated
HourlyCounterResetsInNewClockHour ==
    [][(/\ pc = "idle"
        /\ obs'.op = "check_risk"
        /\ hist.accepted.hour # AbsHour(now))
       => risk'.trades_this_hour = 0]_vars

----------------------------------------------------------------------------
(* Properties of live submissions *)

\* the orders the venue filled after their buy_fok had timed out, by hour
LateFillsOfHour(hour) ==
    {i \in 1..Len(submissions.filled) : AbsHour(submissions.filled[i].ts) = hour}

\* the orders buy_fok recorded in the current clock hour
RecordedThisHour ==
    IF hist.accepted.hour = AbsHour(now) THEN hist.accepted.n ELSE 0

MarketOpenAt(key, t) ==
    \/ InferMarketEndEpoch(key.horizon, key.identity) = NoEpoch
    \/ InferMarketEndEpoch(key.horizon, key.identity) > t

\* C37: when buy_fok evaluates an order, every order the venue has filled
\* is in the ledger the evaluation leaves: the hour's counter counts the
\* fills of the hour, and the exposure of every filled order of a market
\* still open is in the map; orders filled after their submission timed
\* out included
FilledOrdersInLedgerAtNextCheck ==
    [][(pc = "idle" /\ obs'.op = "check_risk") =>
          /\ risk'.trades_this_hour >=
                 RecordedThisHour + Cardinality(LateFillsOfHour(AbsHour(now)))
          /\ \A i \in 1..Len(submissions.filled) :
                MarketOpenAt(submissions.filled[i].key, now) =>
                    ExposureOf(risk', submissions.filled[i].key)
                        >= submissions.filled[i].notional]_vars

----------------------------------------------------------------------------
(* Properties of the release of exposure *)

\* what the accepted orders of the key k on markets still running at t add up to
RunningNotional(k, t) ==
    SumOver([i \in 1..Len(submissions.accepted) |-> submissions.accepted[i].notional],
            {i \in 1..Len(submissions.accepted) :
                /\ submissions.accepted[i].key = k
                /\ submissions.accepted[i].end > t})

\* C38: at every _check_risk the exposure of an accepted order whose market
\* has ended is gone: what an entry of the map still counts is covered by
\* the accepted orders of its key whose market is still running, also for
\* orders placed without market_slug and market_start_epoch
ExposureReleasedAfterMarketEnd ==
    [][(pc = "idle" /\ obs'.op = "check_risk") =>
          \A k \in DOMAIN risk'.open_exposure_usd_by_market :
              risk'.open_exposure_usd_by_market[k] <= RunningNotional(k, now)]_vars

----------------------------------------------------------------------------
(* Properties of the loaded ledger *)

\* C39: right after the trader is constructed, from whatever state file,
\* total_open_notional_usd is the sum of the migrated exposure map
LoadedTotalIsSumOfMigratedMap ==
    obs.op = "construct" =>
        risk.total_open_notional_usd = SumValues(risk.open_exposure_usd_by_market)

----------------------------------------------------------------------------
(* Properties of the feeds' reconnection *)

\* C40: stream_prices makes a new connection attempt after a connection
\* has ended, with an error or with a clean close by the server, only out of
\* a sleep of at least reconnect_delay_min
ReconnectOnlyAfterSleep ==
    [][(rtds'.pc = "connecting" /\ rtds.pc # "connecting") =>
          /\ rtds.pc = "sleeping"
          /\ rtds.slept >= RtdsSettings.reconnect_delay_min]_vars

====
